---- MODULE Spec2Model ----
(***************************************************************************)
(* State-machine model of the FastPATH tile scheduler                      *)
(* (src/src/fastpath_core/src/scheduler.rs) with its two caches            *)
(* (cache.rs), the slide pool (slide_pool.rs) and the read/decode helpers  *)
(* (decoder.rs, format.rs).                                                *)
(*                                                                         *)
(* Every public method of TileScheduler takes &self and the struct is      *)
(* shared between threads.  An operation is cut into one action per access *)
(* to shared state (an atomic load/store, a lock-protected section, one    *)
(* cache call); purely local computation (decode, comparisons on locals)   *)
(* and reads of the unchanging tile files are folded into the neighbouring *)
(* access.  Spec explores two threads calling into one scheduler, SpecSeq  *)
(* a single caller issuing every operation.                                *)
(***************************************************************************)
EXTENDS Integers, Sequences, FiniteSets, TLC

\* ------------------------------------------------------------------ bounds
MaxGen == 2      \* load/close bumps explored with two threads
MaxStat == 1     \* cap of each hit/miss counter with two threads
MaxGenSeq == 3   \* load/close bumps explored in sequential use
MaxStatSeq == 2  \* cap of each hit/miss counter in sequential use
MaxLen == 2      \* length of a filter_cached_tiles input in sequential use
MaxLenConc == 1  \* length of a filter_cached_tiles input with two threads
MaxGenFg == 1    \* load/close bumps explored with get_tile against prefetch
MaxStatFg == 2   \* cap of each hit/miss counter with get_tile against prefetch
MaxGenIdle == 2  \* load/close bumps explored around an empty slot
MaxStatIdle == 2 \* cap of each hit/miss counter around an empty slot
MaxGenPool == 2  \* load/close bumps explored beside a bulk preload
MaxRunsPool == 2 \* start_bulk_preload calls that spawn, beside load and close
MaxGenStale == 2  \* load/close bumps explored between two prefetch workers
MaxStatStale == 2 \* cap of each hit/miss counter with two prefetch workers
MaxGenFlight == 2  \* load/close bumps explored while markers are followed
MaxStatFlight == 2 \* cap of each hit/miss counter while markers are followed
MaxGenSwitch == 3  \* load/close bumps explored with two switching threads
MaxRuns == 2     \* start_bulk_preload calls that spawn, single caller
MaxRunsConc == 2 \* start_bulk_preload calls that spawn, two callers
MaxRunsFair == 1 \* start_bulk_preload calls that spawn, termination checks
CacheCap == 3    \* B: max_capacity of the TrackedCache explored on its own
MaxWeight == 2   \* largest weight the weigher reports (u32::MAX in the code)
MaxStatCache == 2 \* cap of each hit/miss counter of that cache

Threads == {"t1", "t2"}

Ops == {"load", "close", "get_tile", "update_viewport", "filter_cached_tiles",
        "reset_cache_stats"}

BulkOps == {"start_bulk_preload", "cancel_bulk_preload", "is_bulk_preloading"}

\* TileCoord = <<level, col, row>>
Coords == {<<0, 0, 0>>, <<0, 1, 0>>}
NoCoord == <<>>

\* Directories handed to load(): two valid slides, one directory whose
\* metadata.json is invalid, one path that does not exist.
Paths == {"A", "B", "bad", "nowhere"}

PathExists(path) == path # "nowhere"

MetadataValid(path) == path \in {"A", "B"}

\* compute_slide_id: a hash of the canonical path; distinct nonzero ids.
compute_slide_id(path) ==
    CASE path = "A" -> 1
      [] path = "B" -> 2
      [] OTHER -> 3

SlideIds == {1, 2, 3}

\* The tile files tiles_files/<level>/<col>_<row>.jpg of each slide directory:
\*   "good"    readable, decodable
\*   "corrupt" header parses (read_jpeg_bytes succeeds) but decode fails
\*   "absent"  no such file (read_jpeg_bytes fails)
FileKind(sid, coord) ==
    CASE sid = 1 /\ coord = <<0, 0, 0>> -> "good"
      [] sid = 1 /\ coord = <<0, 1, 0>> -> "corrupt"
      [] sid = 2 /\ coord = <<0, 0, 0>> -> "good"
      [] OTHER -> "absent"

\* Values: compressed bytes <<"jpeg", sid, coord>> are the content of the file
\* of slide sid at coord; a decoded tile <<"rgb", sid, coord>> are its pixels.
NoData == <<>>

JpegOf(sid, coord) == <<"jpeg", sid, coord>>

\* read_jpeg_bytes(path): NoData stands for Err.
read_jpeg_bytes(sid, coord) ==
    IF FileKind(sid, coord) = "absent" THEN NoData ELSE JpegOf(sid, coord)

\* decode_jpeg_bytes(compressed): NoData stands for Err.
decode_jpeg_bytes(compressed) ==
    IF FileKind(compressed[2], compressed[3]) = "good"
    THEN <<"rgb", compressed[2], compressed[3]>>
    ELSE NoData

TileOf(sid, coord) == <<"rgb", sid, coord>>

\* SlideEntry shared through an Arc: id is the slide it describes, arc names
\* the thread whose load_or_get allocated it.
NoEntry == [id |-> 0, arc |-> "none"]

L2Keys == (0..2) \X Coords

VARIABLES
    generation,       \* AtomicU64
    in_flight,        \* Mutex<HashSet<TileCoord>>
    l1,               \* L1 cache: Coords -> tile or NoData
    l1s,              \* L1 hit/miss counters
    l2,               \* L2 cache: L2Keys -> bytes or NoData
    l2s,              \* L2 hit/miss counters
    slide,            \* RwLock<Option<Arc<SlideEntry>>>: the current-slide slot
    slideWriter,      \* thread holding the slot's write guard, or "none"
    active_slide_id,  \* AtomicU64
    pool,             \* SlidePool.entries: slide id -> arc, "none" when absent
    th,               \* per thread: position and locals of its running call
    host,             \* the host program: the calls each thread issues, the
                      \* tiles it asks for, how far the exploration follows it
    l1ClearedGen,     \* history: newest generation whose load/close cleared L1
    flightGen,        \* history: per coord, the batch_generation of the worker
                      \* whose insert put the marker now in in_flight, -1
                      \* while in_flight does not hold the coord
    cancelled,        \* BulkPreloader.cancelled: AtomicBool
    handle,           \* BulkPreloader.handle: the stored JoinHandle, 0 for None
    handleHolder,     \* thread holding the handle mutex, or "none"
    co,               \* the coordinator threads spawned by start()
    tcMap,            \* a TrackedCache on its own: key -> size_bytes of the
                      \* value a get would return, 0 when there is none
    tcAcct,           \* key -> weight counted in weighted_size / entry_count
    tcs,              \* its hit/miss counters
    tcOut,            \* the latest call on it and what it returned
    tcHist,           \* history: gets since the last clear or reset_stats,
                      \* whether the last clear/reset wiped nonzero counters,
                      \* whether the last clear removed entries, evictions
    pcalc,            \* a PrefetchCalculator on its own: the latest call on
                      \* it, its arguments and what it returned
    tpack,            \* the packer and a tile container on their own
    smeta             \* SlideMetadata::validate on its own: input and result

sched == <<generation, in_flight, flightGen, slide, slideWriter, active_slide_id, pool>>
caches == <<l1, l1s, l2, l2s>>
preloader == <<cancelled, handle, handleHolder, co>>
tracked == <<tcMap, tcAcct, tcs, tcOut, tcHist>>
pure == <<pcalc, tpack, smeta>>
vars == <<generation, in_flight, flightGen, l1, l1s, l2, l2s, slide, slideWriter,
          active_slide_id, pool, th, host, l1ClearedGen, preloader, tracked,
          pure>>

ZeroStats == [hits |-> 0, misses |-> 0]

IdleRec ==
    [pc |-> "idle", op |-> "none", coord |-> NoCoord, entry |-> NoEntry,
     path |-> "", sid |-> 0, cur |-> 0, bgen |-> 0, data |-> NoData,
     ret |-> "-", xs |-> <<>>, out |-> <<>>, i |-> 0, g0 |-> -1,
     slides |-> <<>>, h |-> 0, seen |-> {}]

\* Two threads: t1 is the UI thread (slide switching, tile lookups, cached-tile
\* queries); t2 updates the viewport and runs the prefetch batch it dispatches.
\* Both work on the one tile that slides A and B both have.
HostConcurrent ==
    [issues |-> [t \in Threads |->
                   IF t = "t1"
                   THEN {"load", "close", "get_tile", "filter_cached_tiles"}
                   ELSE {"update_viewport"}],
     maxGen |-> MaxGen, maxStat |-> MaxStat, maxLen |-> MaxLenConc,
     coords |-> {<<0, 0, 0>>}]

\* Sequential use: every operation, issued by the UI thread alone, on every
\* tile coordinate.
HostSequential ==
    [issues |-> [t \in Threads |-> IF t = "t1" THEN Ops ELSE {}],
     maxGen |-> MaxGenSeq, maxStat |-> MaxStatSeq, maxLen |-> MaxLen,
     coords |-> Coords]

\* Foreground against background: the UI thread loads a slide and asks for
\* tiles while t2's viewport update has a prefetch worker on the same tile.
HostForeground ==
    [issues |-> [t \in Threads |->
                   IF t = "t1" THEN {"load", "get_tile"}
                   ELSE {"update_viewport"}],
     maxGen |-> MaxGenFg, maxStat |-> MaxStatFg, maxLen |-> MaxLenConc,
     coords |-> {<<0, 0, 0>>}]

\* Use around an empty slot: the UI thread alone loads, closes, asks for
\* tiles, updates the viewport and warms the low-resolution levels.
HostIdle ==
    [issues |-> [t \in Threads |->
                   IF t = "t1"
                   THEN {"load", "close", "get_tile", "update_viewport",
                         "prefetch_low_res_levels"}
                   ELSE {}],
     maxGen |-> MaxGenIdle, maxStat |-> MaxStatIdle, maxLen |-> 0,
     coords |-> Coords]

\* Two prefetch batches: t1 updates the viewport, t2 switches slides and
\* updates the viewport too, each running the worker of its own batch on
\* the tile both slides have.
HostStale ==
    [issues |-> [t \in Threads |->
                   IF t = "t1" THEN {"update_viewport"}
                   ELSE {"load", "close", "update_viewport"}],
     maxGen |-> MaxGenStale, maxStat |-> MaxStatStale, maxLen |-> 0,
     coords |-> {<<0, 0, 0>>}]

\* A prefetch batch over both tiles, among them the tile whose file is
\* corrupt in slide A and missing in slide B: t1 updates the viewport while
\* t2 switches and closes slides.
HostFlight ==
    [issues |-> [t \in Threads |->
                   IF t = "t1" THEN {"update_viewport"}
                   ELSE {"load", "close"}],
     maxGen |-> MaxGenFlight, maxStat |-> MaxStatFlight, maxLen |-> 0,
     coords |-> Coords]

\* Two threads that both load and close slides.
HostSwitch ==
    [issues |-> [t \in Threads |-> {"load", "close"}],
     maxGen |-> MaxGenSwitch, maxStat |-> 0, maxLen |-> 0,
     coords |-> Coords]

Issues(t, op) == op \in host.issues[t]

Max(a, b) == IF a >= b THEN a ELSE b

\* The tile grid of a slide's metadata (one level, one row, two columns),
\* in the order of the enumeration loops: level, row, col.
MetadataGrid == << <<0, 0, 0>>, <<0, 1, 0>> >>

\* Coordinator threads ("bulk-preload-main"), numbered in spawn order.
Coordinators == 1..Max(MaxRuns, Max(MaxRunsConc, MaxRunsFair))

\* A coordinator: its position, the moved-in slide list, the loop index i
\* over the list, the index j over the grid, the pool entry of the current
\* slide, the state of each tile of tile_work in the parallel for_each
\* ("none" not in tile_work, "todo", "go" past the cancellation poll, "fin"),
\* the counters loaded / failed / skipped, and the lines it has logged.
\* polled is history: a poll of this run has read cancelled = true.
CoUnborn ==
    [pc |-> "unborn", slides |-> <<>>, i |-> 0, j |-> 0, entry |-> NoEntry,
     work |-> [c \in Coords |-> "none"], loaded |-> 0, failed |-> 0,
     skipped |-> 0, log |-> <<>>, polled |-> FALSE]

\* Single caller of the bulk preloader.  The lists: empty, one slide, a slide
\* with invalid metadata first or last, a path that does not exist, and a
\* slide (B) one of whose tile files cannot be read.
HostBulkSeq ==
    [issues |-> [t \in Threads |-> IF t = "t1" THEN BulkOps ELSE {}],
     maxRuns |-> MaxRuns,
     lists |-> {<<>>, <<"A">>, <<"B">>, <<"bad", "B", "A">>, <<"A", "bad">>,
                <<"nowhere", "B">>}]

\* Single caller, followed until every thread that can run has run.
HostBulkFair == [HostBulkSeq EXCEPT !.maxRuns = MaxRunsFair]

\* Two callers of the bulk preloader.
HostBulk ==
    [issues |-> [t \in Threads |->
                   IF t = "t1" THEN BulkOps ELSE {"start_bulk_preload"}],
     maxRuns |-> MaxRunsConc,
     lists |-> {<<"A">>}]

\* The UI thread loads and closes slides while the other thread has started
\* a bulk preload of the same directories.
HostPool ==
    [issues |-> [t \in Threads |->
                   IF t = "t1" THEN {"load", "close"}
                   ELSE {"start_bulk_preload"}],
     maxGen |-> MaxGenPool, maxStat |-> 0, maxLen |-> 0, coords |-> Coords,
     maxRuns |-> MaxRunsPool,
     lists |-> {<<"A">>, <<"bad", "B">>}]

\* Keys of the TrackedCache explored on its own.
CKeys == {"k1", "k2"}

\* size_bytes of the values inserted: at most B.
CSizes == 1..CacheCap

\* The weigher: size_bytes(value).try_into().unwrap_or(u32::MAX)
Weigh(size) == IF size <= MaxWeight THEN size ELSE MaxWeight

NoCall == [op |-> "none", key |-> "", ret |-> <<>>, tick |-> 0]

ZeroHist == [gets |-> 0, wiped |-> FALSE, cleared |-> FALSE, evicted |-> FALSE]

\* One client of a TrackedCache.
HostCache ==
    [issues |-> [t \in Threads |-> {}], maxStat |-> MaxStatCache]

\* What a call returns: a panic (or abort) unwinds it, otherwise a value.
Panicked == [panic |-> TRUE, val |-> <<>>]

Returned(v) == [panic |-> FALSE, val |-> v]

\* No call has been made on the PrefetchCalculator.
NoCalc == [op |-> "none", meta |-> <<>>, cfg |-> <<>>, vp |-> <<>>,
           cached |-> {}, build |-> "", out |-> Returned(<<>>)]

\* What a fallible call returns.
Ok(v) == [err |-> "none", val |-> v]

Err(kind) == [err |-> kind, val |-> <<>>]

\* A directory with neither tiles_files nor tiles.
BareFs == [tiles_files |-> <<>>, tiles |-> <<>>, dzi |-> FALSE]

NoPackCall == [op |-> "none", level |-> 0, col |-> 0, row |-> 0,
               res |-> Ok(<<>>)]

\* tpack: the file system given (input) and as it is now (fs), the level
\* grid handed to the packer, how pack_dzsave_tiles ended if it ran, the
\* open TilePack if any, and the call in progress.
PackStart(fs, levels) ==
    [input |-> fs, levels |-> levels, fs |-> fs, packed |-> "no",
     pk |-> <<>>, out |-> NoPackCall]

NoPack == PackStart(BareFs, <<>>)

\* No metadata has been handed to SlideMetadata::validate.
NoMeta == [input |-> <<>>, out |-> <<>>]

\* The components other than the packer's directory and the metadata under
\* validation, as constructed.
Built ==
    /\ pcalc = NoCalc
    /\ tcMap = [k \in CKeys |-> 0]
    /\ tcAcct = [k \in CKeys |-> 0]
    /\ tcs = ZeroStats
    /\ tcOut = NoCall
    /\ tcHist = ZeroHist
    /\ cancelled = FALSE
    /\ handle = 0
    /\ handleHolder = "none"
    /\ co = [c \in Coordinators |-> CoUnborn]
    /\ generation = 0
    /\ in_flight = {}
    /\ flightGen = [c \in Coords |-> -1]
    /\ l1 = [c \in Coords |-> NoData]
    /\ l1s = ZeroStats
    /\ l2 = [k \in L2Keys |-> NoData]
    /\ l2s = ZeroStats
    /\ slide = NoEntry
    /\ slideWriter = "none"
    /\ active_slide_id = 0
    /\ pool = [s \in SlideIds |-> "none"]
    /\ th = [t \in Threads |-> IdleRec]
    /\ l1ClearedGen = 0

\* The state after construction.
Constructed == Built /\ tpack = NoPack /\ smeta = NoMeta

Init == Constructed /\ host = HostConcurrent

InitSeq == Constructed /\ host = HostSequential

InitFg == Constructed /\ host = HostForeground

InitCache == Constructed /\ host = HostCache

InitBulk == Constructed /\ host = HostBulk

InitBulkSeq == Constructed /\ host = HostBulkSeq

InitBulkFair == Constructed /\ host = HostBulkFair

InitIdle == Constructed /\ host = HostIdle

InitPool == Constructed /\ host = HostPool

InitStale == Constructed /\ host = HostStale

InitSwitch == Constructed /\ host = HostSwitch

InitFlight == Constructed /\ host = HostFlight

\* ------------------------------------------------------------ thread records
Goto(t, rec) == th' = [th EXCEPT ![t] = rec]

\* The call returns: locals are dropped, the result is in the caller's hands.
Return(t, r, d) ==
    th' = [th EXCEPT ![t] =
             [IdleRec EXCEPT !.pc = "done", !.op = th[t].op,
                             !.coord = th[t].coord, !.xs = th[t].xs,
                             !.g0 = th[t].g0, !.ret = r, !.data = d]]

\* The caller is done with the result and is free to issue its next call.
Resume(t) ==
    /\ th[t].pc = "done"
    /\ Goto(t, IdleRec)
    /\ UNCHANGED <<generation, in_flight, flightGen, slide, slideWriter, active_slide_id,
                   pool, l1, l1s, l2, l2s, host, l1ClearedGen, preloader, tracked, pure>>

\* Threads between the start of a load/close and its generation bump.
PendingBumps == Cardinality({u \in Threads : th[u].pc \in {"ld_slow", "ld_gen"}})

InLoadClose(u) ==
    th[u].pc \in {"ld_slow", "ld_gen", "ld_flight", "ld_clear", "ld_slot",
                  "ld_active", "cl_flight", "cl_slot", "cl_clear", "cl_active"}

\* ------------------------------------------------------------- TrackedCache
\* Variant: clear invalidates the entries but keeps the counters.
L1ClearKeepStats ==
    /\ l1' = [c \in Coords |-> NoData]
    /\ l1s' = l1s

\* TrackedCache::clear on L1: all entries invalidated, counters reset.
L1Clear ==
    /\ l1' = [c \in Coords |-> NoData]
    /\ l1s' = ZeroStats

\* ---------------------------------------------------------------- load(path)
\* Lines 106-120 up to the pool's fast path: existence check, canonicalize,
\* compute_slide_id, SlidePool::load_or_get read-locked lookup.
LoadBegin(t, path) ==
    /\ th[t].pc = "idle"
    /\ Issues(t, "load")
    /\ generation + PendingBumps < host.maxGen
    /\ IF ~PathExists(path)
       THEN Goto(t, [IdleRec EXCEPT !.pc = "done", !.op = "load",
                                !.ret = "err"])
       ELSE LET sid == compute_slide_id(path) IN
            IF pool[sid] # "none"
            THEN Goto(t, [IdleRec EXCEPT !.pc = "ld_gen", !.op = "load",
                             !.path = path, !.sid = sid,
                             !.entry = [id |-> sid, arc |-> pool[sid]]])
            ELSE Goto(t, [IdleRec EXCEPT !.pc = "ld_slow", !.op = "load",
                             !.path = path, !.sid = sid])
    /\ UNCHANGED <<sched, caches, host, l1ClearedGen, preloader, tracked, pure>>

\* Variant: the pool entry is inserted before the metadata is validated.
LoadSlowInsertFirst(t) ==
    /\ th[t].pc = "ld_slow"
    /\ pool' = [pool EXCEPT ![th[t].sid] = t]
    /\ IF ~MetadataValid(th[t].path)
       THEN Goto(t, [IdleRec EXCEPT !.pc = "done", !.op = "load",
                                   !.ret = "err"])
       ELSE Goto(t, [th[t] EXCEPT !.pc = "ld_gen",
                        !.entry = [id |-> th[t].sid, arc |-> t]])
    /\ UNCHANGED <<generation, in_flight, flightGen, slide, slideWriter, active_slide_id,
                   caches, host, l1ClearedGen, preloader, tracked, pure>>

\* SlidePool::load_or_get slow path: SlideMetadata::load, then insert under
\* the write lock (HashMap::insert replaces an entry a racing thread put).
LoadSlow(t) ==
    /\ th[t].pc = "ld_slow"
    /\ IF ~MetadataValid(th[t].path)
       THEN /\ Goto(t, [IdleRec EXCEPT !.pc = "done", !.op = "load",
                                !.ret = "err"])
            /\ pool' = pool
       ELSE /\ pool' = [pool EXCEPT ![th[t].sid] = t]
            /\ Goto(t, [th[t] EXCEPT !.pc = "ld_gen",
                           !.entry = [id |-> th[t].sid, arc |-> t]])
    /\ UNCHANGED <<generation, in_flight, flightGen, slide, slideWriter, active_slide_id,
                   caches, host, l1ClearedGen, preloader, tracked, pure>>

\* Variant: load bumps the generation by two.
LoadGenTwo(t) ==
    /\ th[t].pc = "ld_gen"
    /\ generation' = generation + 2
    /\ Goto(t, [th[t] EXCEPT !.pc = "ld_flight", !.bgen = generation + 2])
    /\ UNCHANGED <<in_flight, flightGen, slide, slideWriter, active_slide_id, pool,
                   caches, host, l1ClearedGen, preloader, tracked, pure>>

\* self.generation.fetch_add(1)
LoadGen(t) ==
    /\ th[t].pc = "ld_gen"
    /\ generation' = generation + 1
    /\ Goto(t, [th[t] EXCEPT !.pc = "ld_flight", !.bgen = generation + 1])
    /\ UNCHANGED <<in_flight, flightGen, slide, slideWriter, active_slide_id, pool,
                   caches, host, l1ClearedGen, preloader, tracked, pure>>

\* self.in_flight.lock().clear()
LoadFlight(t) ==
    /\ th[t].pc = "ld_flight"
    /\ in_flight' = {}
    /\ flightGen' = [c \in Coords |-> -1]
    /\ Goto(t, [th[t] EXCEPT !.pc = "ld_clear"])
    /\ UNCHANGED <<generation, slide, slideWriter, active_slide_id, pool,
                   caches, host, l1ClearedGen, preloader, tracked, pure>>

\* Variant: load's clear also empties L2.
LoadClearAlsoL2(t) ==
    /\ th[t].pc = "ld_clear"
    /\ L1Clear
    /\ l2' = [k \in L2Keys |-> NoData]
    /\ l1ClearedGen' = Max(l1ClearedGen, th[t].bgen)
    /\ Goto(t, [th[t] EXCEPT !.pc = "ld_slot"])
    /\ UNCHANGED <<sched, l2s, host, preloader, tracked, pure>>

\* self.cache.clear(); L2 is not touched
LoadClear(t) ==
    /\ th[t].pc = "ld_clear"
    /\ L1Clear
    /\ l1ClearedGen' = Max(l1ClearedGen, th[t].bgen)
    /\ Goto(t, [th[t] EXCEPT !.pc = "ld_slot"])
    /\ UNCHANGED <<sched, l2, l2s, host, preloader, tracked, pure>>

\* Variant: the slot is written and its write guard dropped at once.
LoadSlotGuardDropped(t) ==
    /\ th[t].pc = "ld_slot"
    /\ slideWriter = "none"
    /\ slide' = th[t].entry
    /\ Goto(t, [th[t] EXCEPT !.pc = "ld_active"])
    /\ UNCHANGED <<generation, in_flight, flightGen, slideWriter,
                   active_slide_id, pool, caches, host, l1ClearedGen,
                   preloader, tracked, pure>>

\* let mut slide = self.slide.write(); *slide = Some(entry)
LoadSlot(t) ==
    /\ th[t].pc = "ld_slot"
    /\ slideWriter = "none"
    /\ slideWriter' = t
    /\ slide' = th[t].entry
    /\ Goto(t, [th[t] EXCEPT !.pc = "ld_active"])
    /\ UNCHANGED <<generation, in_flight, flightGen, active_slide_id, pool, caches,
                   host, l1ClearedGen, preloader, tracked, pure>>

\* self.active_slide_id.store(slide_id); Ok(()) drops the write guard
LoadActive(t) ==
    /\ th[t].pc = "ld_active"
    /\ active_slide_id' = th[t].sid
    /\ slideWriter' = "none"
    /\ Return(t, "ok", NoData)
    /\ UNCHANGED <<generation, in_flight, flightGen, slide, pool, caches, host, l1ClearedGen, preloader, tracked, pure>>

\* ------------------------------------------------------------------- close()
\* self.generation.fetch_add(1)
CloseGen(t) ==
    /\ th[t].pc = "idle"
    /\ Issues(t, "close")
    /\ generation + PendingBumps < host.maxGen
    /\ generation' = generation + 1
    /\ Goto(t, [IdleRec EXCEPT !.pc = "cl_flight", !.op = "close",
                   !.bgen = generation + 1])
    /\ UNCHANGED <<in_flight, flightGen, slide, slideWriter, active_slide_id, pool,
                   caches, host, l1ClearedGen, preloader, tracked, pure>>

\* self.in_flight.lock().clear()
CloseFlight(t) ==
    /\ th[t].pc = "cl_flight"
    /\ in_flight' = {}
    /\ flightGen' = [c \in Coords |-> -1]
    /\ Goto(t, [th[t] EXCEPT !.pc = "cl_slot"])
    /\ UNCHANGED <<generation, slide, slideWriter, active_slide_id, pool,
                   caches, host, l1ClearedGen, preloader, tracked, pure>>

\* let mut slide = self.slide.write(); *slide = None
CloseSlot(t) ==
    /\ th[t].pc = "cl_slot"
    /\ slideWriter = "none"
    /\ slideWriter' = t
    /\ slide' = NoEntry
    /\ Goto(t, [th[t] EXCEPT !.pc = "cl_clear"])
    /\ UNCHANGED <<generation, in_flight, flightGen, active_slide_id, pool, caches,
                   host, l1ClearedGen, preloader, tracked, pure>>

\* self.cache.clear(); L2 is not touched
CloseClear(t) ==
    /\ th[t].pc = "cl_clear"
    /\ L1Clear
    /\ l1ClearedGen' = Max(l1ClearedGen, th[t].bgen)
    /\ Goto(t, [th[t] EXCEPT !.pc = "cl_active"])
    /\ UNCHANGED <<sched, l2, l2s, host, preloader, tracked, pure>>

\* self.active_slide_id.store(0); the write guard drops at return
CloseActive(t) ==
    /\ th[t].pc = "cl_active"
    /\ active_slide_id' = 0
    /\ slideWriter' = "none"
    /\ Return(t, "ok", NoData)
    /\ UNCHANGED <<generation, in_flight, flightGen, slide, pool, caches, host, l1ClearedGen, preloader, tracked, pure>>

\* ------------------------------------------------------------- TrackedCache
\* TrackedCache::get: the value (NoData on a miss); one counter moves.
CacheGetStats(stats, value) ==
    IF value # NoData
    THEN [stats EXCEPT !.hits = @ + 1]
    ELSE [stats EXCEPT !.misses = @ + 1]

\* Room left in the counter this get will move.
CacheGetRoom(stats, value) ==
    IF value # NoData
    THEN stats.hits < host.maxStat
    ELSE stats.misses < host.maxStat

\* The scheduler's guard on the foreground L2 insert: if slide_id != 0
FgL2InsertAllowed(sid) == sid # 0

\* Variant: L2 is probed whatever the slide id.
L2LookupAlways(sid) == TRUE

\* The scheduler's guard on an L2 lookup: if slide_id != 0
L2LookupAllowed(sid) == sid # 0

\* ----------------------------------------------------- get_tile(level,col,row)
\* True when no load/close call is in progress.
Quiescent == \A u \in Threads : ~InLoadClose(u)

\* if let Some(tile) = self.cache.get(&coord) { return Some(tile) }
GetTileBegin(t, coord) ==
    /\ th[t].pc = "idle"
    /\ Issues(t, "get_tile")
    /\ CacheGetRoom(l1s, l1[coord])
    /\ l1s' = CacheGetStats(l1s, l1[coord])
    /\ LET rec == [IdleRec EXCEPT !.op = "get_tile", !.coord = coord,
                      !.g0 = IF Quiescent THEN generation ELSE -1] IN
       IF l1[coord] # NoData
       THEN Goto(t, [rec EXCEPT !.pc = "done", !.ret = "some",
                        !.data = l1[coord]])
       ELSE Goto(t, [rec EXCEPT !.pc = "g_sid"])
    /\ UNCHANGED <<sched, l1, l2, l2s, host, l1ClearedGen, preloader, tracked, pure>>

\* let slide_id = self.active_slide_id.load(); if slide_id != 0 { .. }
GetTileSid(t) ==
    /\ th[t].pc = "g_sid"
    /\ Goto(t, [th[t] EXCEPT !.sid = active_slide_id,
                   !.pc = IF L2LookupAllowed(active_slide_id)
                          THEN "g_l2" ELSE "g_slot"])
    /\ UNCHANGED <<sched, caches, host, l1ClearedGen, preloader, tracked, pure>>

\* Variant: an L2 hit is not promoted; the lookup always goes on to disk.
GetTileL2NoPromote(t) ==
    /\ th[t].pc = "g_l2"
    /\ LET compressed == l2[<<th[t].sid, th[t].coord>>] IN
       /\ CacheGetRoom(l2s, compressed)
       /\ l2s' = CacheGetStats(l2s, compressed)
       /\ Goto(t, [th[t] EXCEPT !.pc = "g_slot"])
    /\ UNCHANGED <<sched, l1, l1s, l2, host, l1ClearedGen, preloader, tracked, pure>>

\* Variant: an L2 entry that fails to decode ends the lookup with None.
GetTileL2NoFallThrough(t) ==
    /\ th[t].pc = "g_l2"
    /\ LET compressed == l2[<<th[t].sid, th[t].coord>>] IN
       /\ CacheGetRoom(l2s, compressed)
       /\ l2s' = CacheGetStats(l2s, compressed)
       /\ IF compressed = NoData
          THEN Goto(t, [th[t] EXCEPT !.pc = "g_slot"])
          ELSE IF decode_jpeg_bytes(compressed) # NoData
          THEN Goto(t, [th[t] EXCEPT !.pc = "g_promote",
                           !.data = decode_jpeg_bytes(compressed)])
          ELSE Return(t, "none", NoData)
    /\ UNCHANGED <<sched, l1, l1s, l2, host, l1ClearedGen, preloader, tracked, pure>>

\* self.l2_cache.get(&l2_coord) and decode_jpeg_bytes of a hit
GetTileL2(t) ==
    /\ th[t].pc = "g_l2"
    /\ LET compressed == l2[<<th[t].sid, th[t].coord>>] IN
       /\ CacheGetRoom(l2s, compressed)
       /\ l2s' = CacheGetStats(l2s, compressed)
       /\ IF compressed # NoData /\ decode_jpeg_bytes(compressed) # NoData
          THEN Goto(t, [th[t] EXCEPT !.pc = "g_promote",
                           !.data = decode_jpeg_bytes(compressed)])
          ELSE Goto(t, [th[t] EXCEPT !.pc = "g_slot"])
    /\ UNCHANGED <<sched, l1, l1s, l2, host, l1ClearedGen, preloader, tracked, pure>>

\* self.cache.insert(coord, tile.clone()); return Some(tile)
GetTilePromote(t) ==
    /\ th[t].pc = "g_promote"
    /\ l1' = [l1 EXCEPT ![th[t].coord] = th[t].data]
    /\ Return(t, "some", th[t].data)
    /\ UNCHANGED <<sched, l1s, l2, l2s, host, l1ClearedGen, preloader, tracked, pure>>

\* let slide = self.slide.read(); slide.as_ref()?.resolver.get_tile_path(..)?
GetTileSlot(t) ==
    /\ th[t].pc = "g_slot"
    /\ slideWriter = "none"
    /\ IF slide = NoEntry
       THEN Return(t, "none", NoData)
       ELSE Goto(t, [th[t] EXCEPT !.pc = "g_read", !.entry = slide])
    /\ UNCHANGED <<sched, caches, host, l1ClearedGen, preloader, tracked, pure>>

\* Variant: the foreground load gives up on a coord a prefetch worker holds.
LoadTileIntoCacheReadSkipInFlight(t) ==
    /\ th[t].pc = "g_read"
    /\ LET compressed == read_jpeg_bytes(th[t].entry.id, th[t].coord) IN
       IF compressed = NoData \/ th[t].coord \in in_flight
       THEN Return(t, "none", NoData)
       ELSE Goto(t, [th[t] EXCEPT !.pc = "g_l2ins", !.sid = active_slide_id,
                        !.data = compressed])
    /\ UNCHANGED <<sched, caches, host, l1ClearedGen, preloader, tracked, pure>>

\* load_tile_into_cache: slide_id = self.active_slide_id.load(), then
\* read_jpeg_bytes(path); a read error returns None.
LoadTileIntoCacheRead(t) ==
    /\ th[t].pc = "g_read"
    /\ LET compressed == read_jpeg_bytes(th[t].entry.id, th[t].coord) IN
       IF compressed = NoData
       THEN Return(t, "none", NoData)
       ELSE Goto(t, [th[t] EXCEPT !.pc = "g_l2ins", !.sid = active_slide_id,
                        !.data = compressed])
    /\ UNCHANGED <<sched, caches, host, l1ClearedGen, preloader, tracked, pure>>

\* if slide_id != 0 { self.l2_cache.insert(..) }, then decode_jpeg_bytes; a
\* decode error returns None.
LoadTileIntoCacheL2(t) ==
    /\ th[t].pc = "g_l2ins"
    /\ l2' = IF FgL2InsertAllowed(th[t].sid)
             THEN [l2 EXCEPT ![<<th[t].sid, th[t].coord>>] = th[t].data]
             ELSE l2
    /\ IF decode_jpeg_bytes(th[t].data) = NoData
       THEN Return(t, "none", NoData)
       ELSE Goto(t, [th[t] EXCEPT !.pc = "g_l1ins",
                        !.data = decode_jpeg_bytes(th[t].data)])
    /\ UNCHANGED <<sched, l1, l1s, l2s, host, l1ClearedGen, preloader, tracked, pure>>

\* self.cache.insert(*coord, tile.clone()); Some(tile)
LoadTileIntoCacheL1(t) ==
    /\ th[t].pc = "g_l1ins"
    /\ l1' = [l1 EXCEPT ![th[t].coord] = th[t].data]
    /\ Return(t, "some", th[t].data)
    /\ UNCHANGED <<sched, l1s, l2, l2s, host, l1ClearedGen, preloader, tracked, pure>>

\* ------------------------------------- update_viewport / prefetch_for_viewport
\* let batch_generation = self.generation.load()
ViewportSnap(t) ==
    /\ th[t].pc = "idle"
    /\ Issues(t, "update_viewport")
    /\ Goto(t, [IdleRec EXCEPT !.pc = "u_plan", !.op = "update_viewport",
                   !.bgen = generation])
    /\ UNCHANGED <<sched, caches, host, l1ClearedGen, preloader, tracked, pure>>

\* Under the slot's read guard: no slide, or an empty plan, returns; otherwise
\* the planned coord (one the viewport covers and cache.contains denies) is
\* resolved against the entry in the slot and handed to load_tile_for_prefetch.
\* The batch holds one tile.  tile_paths.par_iter().for_each(..) comes back
\* only when every item has been processed, so the caller is held for the
\* whole of load_tile_for_prefetch: its record carries the worker's position
\* and the worker's last step is the step that lets update_viewport return.
ViewportPlan(t) ==
    /\ th[t].pc = "u_plan"
    /\ slideWriter = "none"
    /\ IF slide = NoEntry \/ \A c \in host.coords : l1[c] # NoData
       THEN Return(t, "unit", NoData)
       ELSE \E c \in {x \in host.coords : l1[x] = NoData} :
                Goto(t, [th[t] EXCEPT !.pc = "w_sid", !.coord = c,
                            !.entry = slide])
    /\ UNCHANGED <<sched, caches, host, l1ClearedGen, preloader, tracked, pure>>

\* ---------------------------- load_tile_for_prefetch(coord, path, batch_gen)
\* The comparison every generation checkpoint makes.
GenerationMatches(bgen) == generation = bgen

\* Guard of the prefetch L2 insert: slide_id != 0 && current_slide_id == slide_id
PfL2InsertAllowed(sid, cur) == sid # 0 /\ cur = sid

\* let slide_id = self.active_slide_id.load()
WorkerSid(t) ==
    /\ th[t].pc = "w_sid"
    /\ Goto(t, [th[t] EXCEPT !.pc = "w_chk1", !.sid = active_slide_id])
    /\ UNCHANGED <<sched, caches, host, l1ClearedGen, preloader, tracked, pure>>

\* Variant: no check 1; the worker goes on to the L1 lookup.
WorkerCheck1Skipped(t) ==
    /\ th[t].pc = "w_chk1"
    /\ Goto(t, [th[t] EXCEPT !.pc = "w_l1"])
    /\ UNCHANGED <<sched, caches, host, l1ClearedGen, preloader, tracked, pure>>

\* Check 1: if generation != batch_generation { return None }
WorkerCheck1(t) ==
    /\ th[t].pc = "w_chk1"
    /\ IF GenerationMatches(th[t].bgen)
       THEN Goto(t, [th[t] EXCEPT !.pc = "w_l1"])
       ELSE Return(t, "none", NoData)
    /\ UNCHANGED <<sched, caches, host, l1ClearedGen, preloader, tracked, pure>>

\* if let Some(tile) = self.cache.get(coord) { return Some(tile) }
WorkerL1Get(t) ==
    /\ th[t].pc = "w_l1"
    /\ CacheGetRoom(l1s, l1[th[t].coord])
    /\ l1s' = CacheGetStats(l1s, l1[th[t].coord])
    /\ IF l1[th[t].coord] # NoData
       THEN Return(t, "some", l1[th[t].coord])
       ELSE Goto(t, [th[t] EXCEPT
                        !.pc = IF L2LookupAllowed(th[t].sid)
                               THEN "w_l2" ELSE "w_claim"])
    /\ UNCHANGED <<sched, l1, l2, l2s, host, l1ClearedGen, preloader, tracked, pure>>

\* if let Some(compressed) = self.l2_cache.get(&l2_coord)
WorkerL2Get(t) ==
    /\ th[t].pc = "w_l2"
    /\ LET compressed == l2[<<th[t].sid, th[t].coord>>] IN
       /\ CacheGetRoom(l2s, compressed)
       /\ l2s' = CacheGetStats(l2s, compressed)
       /\ IF compressed # NoData
          THEN Goto(t, [th[t] EXCEPT !.pc = "w_l2chk1", !.data = compressed])
          ELSE Goto(t, [th[t] EXCEPT !.pc = "w_claim"])
    /\ UNCHANGED <<sched, l1, l1s, l2, host, l1ClearedGen, preloader, tracked, pure>>

\* Generation check before decode, then decode_jpeg_bytes; a decode failure
\* falls through to the disk path.
WorkerL2Check1(t) ==
    /\ th[t].pc = "w_l2chk1"
    /\ IF ~GenerationMatches(th[t].bgen)
       THEN Return(t, "none", NoData)
       ELSE IF decode_jpeg_bytes(th[t].data) = NoData
       THEN Goto(t, [th[t] EXCEPT !.pc = "w_claim", !.data = NoData])
       ELSE Goto(t, [th[t] EXCEPT !.pc = "w_l2chk2",
                        !.data = decode_jpeg_bytes(th[t].data)])
    /\ UNCHANGED <<sched, caches, host, l1ClearedGen, preloader, tracked, pure>>

\* Generation check after decode
WorkerL2Check2(t) ==
    /\ th[t].pc = "w_l2chk2"
    /\ IF GenerationMatches(th[t].bgen)
       THEN Goto(t, [th[t] EXCEPT !.pc = "w_promote"])
       ELSE Return(t, "none", NoData)
    /\ UNCHANGED <<sched, caches, host, l1ClearedGen, preloader, tracked, pure>>

\* self.cache.insert(*coord, tile.clone()); return Some(tile)
WorkerPromote(t) ==
    /\ th[t].pc = "w_promote"
    /\ l1' = [l1 EXCEPT ![th[t].coord] = th[t].data]
    /\ Return(t, "some", th[t].data)
    /\ UNCHANGED <<sched, l1s, l2, l2s, host, l1ClearedGen, preloader, tracked, pure>>

\* Variant: the claim inserts without check 2.
WorkerClaimUnchecked(t) ==
    /\ th[t].pc = "w_claim"
    /\ IF th[t].coord \in in_flight
       THEN /\ Return(t, "none", NoData)
            /\ UNCHANGED <<in_flight, flightGen>>
       ELSE /\ in_flight' = in_flight \cup {th[t].coord}
            /\ flightGen' = [flightGen EXCEPT ![th[t].coord] = th[t].bgen]
            /\ Goto(t, [th[t] EXCEPT !.pc = "w_read"])
    /\ UNCHANGED <<generation, slide, slideWriter, active_slide_id, pool,
                   caches, host, l1ClearedGen, preloader, tracked, pure>>

\* Under the in_flight lock: check 2, then flight.insert(*coord)
WorkerClaim(t) ==
    /\ th[t].pc = "w_claim"
    /\ IF ~GenerationMatches(th[t].bgen) \/ th[t].coord \in in_flight
       THEN /\ Return(t, "none", NoData)
            /\ UNCHANGED <<in_flight, flightGen>>
       ELSE /\ in_flight' = in_flight \cup {th[t].coord}
            /\ flightGen' = [flightGen EXCEPT ![th[t].coord] = th[t].bgen]
            /\ Goto(t, [th[t] EXCEPT !.pc = "w_read"])
    /\ UNCHANGED <<generation, slide, slideWriter, active_slide_id, pool,
                   caches, host, l1ClearedGen, preloader, tracked, pure>>

\* Variant: a failed read returns without clearing the claim.
WorkerReadLeak(t) ==
    /\ th[t].pc = "w_read"
    /\ LET compressed == read_jpeg_bytes(th[t].entry.id, th[t].coord) IN
       IF compressed = NoData
       THEN Return(t, "none", NoData)
       ELSE Goto(t, [th[t] EXCEPT !.pc = "w_l2ins", !.data = compressed,
                        !.cur = active_slide_id])
    /\ UNCHANGED <<sched, caches, host, l1ClearedGen, preloader, tracked, pure>>

\* read_jpeg_bytes(path); on success current_slide_id = active_slide_id.load()
WorkerRead(t) ==
    /\ th[t].pc = "w_read"
    /\ LET compressed == read_jpeg_bytes(th[t].entry.id, th[t].coord) IN
       IF compressed = NoData
       THEN Goto(t, [th[t] EXCEPT !.pc = "w_clr", !.ret = "none"])
       ELSE Goto(t, [th[t] EXCEPT !.pc = "w_l2ins", !.data = compressed,
                        !.cur = active_slide_id])
    /\ UNCHANGED <<sched, caches, host, l1ClearedGen, preloader, tracked, pure>>

\* The guarded L2 insert, then decode_jpeg_bytes
WorkerL2Insert(t) ==
    /\ th[t].pc = "w_l2ins"
    /\ l2' = IF PfL2InsertAllowed(th[t].sid, th[t].cur)
             THEN [l2 EXCEPT ![<<th[t].sid, th[t].coord>>] = th[t].data]
             ELSE l2
    /\ IF decode_jpeg_bytes(th[t].data) = NoData
       THEN Goto(t, [th[t] EXCEPT !.pc = "w_clr", !.ret = "none",
                        !.data = NoData])
       ELSE Goto(t, [th[t] EXCEPT !.pc = "w_chk3",
                        !.data = decode_jpeg_bytes(th[t].data)])
    /\ UNCHANGED <<sched, l1, l1s, l2s, host, l1ClearedGen, preloader, tracked, pure>>

\* Check 3: generation may have changed during decode
WorkerCheck3(t) ==
    /\ th[t].pc = "w_chk3"
    /\ IF GenerationMatches(th[t].bgen)
       THEN Goto(t, [th[t] EXCEPT !.pc = "w_l1ins"])
       ELSE Goto(t, [th[t] EXCEPT !.pc = "w_clr", !.ret = "none",
                        !.data = NoData])
    /\ UNCHANGED <<sched, caches, host, l1ClearedGen, preloader, tracked, pure>>

\* self.cache.insert(*coord, tile.clone()); Some(tile)
WorkerL1Insert(t) ==
    /\ th[t].pc = "w_l1ins"
    /\ l1' = [l1 EXCEPT ![th[t].coord] = th[t].data]
    /\ Goto(t, [th[t] EXCEPT !.pc = "w_clr", !.ret = "some"])
    /\ UNCHANGED <<sched, l1s, l2, l2s, host, l1ClearedGen, preloader, tracked, pure>>

\* clear_in_flight_for_generation: if generation == batch_generation
WorkerClearCheck(t) ==
    /\ th[t].pc = "w_clr"
    /\ IF GenerationMatches(th[t].bgen)
       THEN Goto(t, [th[t] EXCEPT !.pc = "w_rm"])
       ELSE Return(t, th[t].ret, th[t].data)
    /\ UNCHANGED <<sched, caches, host, l1ClearedGen, preloader, tracked, pure>>

\* self.in_flight.lock().remove(coord)
WorkerRemove(t) ==
    /\ th[t].pc = "w_rm"
    /\ in_flight' = in_flight \ {th[t].coord}
    /\ flightGen' = [flightGen EXCEPT ![th[t].coord] = -1]
    /\ Return(t, th[t].ret, th[t].data)
    /\ UNCHANGED <<generation, slide, slideWriter, active_slide_id, pool,
                   caches, host, l1ClearedGen, preloader, tracked, pure>>

\* ------------------------------------------------ filter_cached_tiles(tiles)
FilterInputs == UNION {[1..n -> host.coords] : n \in 0..host.maxLen}

\* let slide_id = self.active_slide_id.load()
FilterBegin(t, xs) ==
    /\ th[t].pc = "idle"
    /\ Issues(t, "filter_cached_tiles")
    /\ Goto(t, [IdleRec EXCEPT !.pc = "f_l1", !.op = "filter_cached_tiles",
                   !.xs = xs, !.i = 1, !.sid = active_slide_id])
    /\ UNCHANGED <<sched, caches, host, l1ClearedGen, preloader, tracked, pure>>

\* One element of the filter closure: self.cache.contains(&coord); past the
\* last element collect() returns.
FilterL1(t) ==
    /\ th[t].pc = "f_l1"
    /\ IF th[t].i > Len(th[t].xs)
       THEN Return(t, "list", th[t].out)
       ELSE LET c == th[t].xs[th[t].i] IN
            IF l1[c] # NoData
            THEN Goto(t, [th[t] EXCEPT !.out = Append(@, c), !.i = @ + 1])
            ELSE IF L2LookupAllowed(th[t].sid)
            THEN Goto(t, [th[t] EXCEPT !.pc = "f_l2"])
            ELSE Goto(t, [th[t] EXCEPT !.i = @ + 1])
    /\ UNCHANGED <<sched, caches, host, l1ClearedGen, preloader, tracked, pure>>

\* Variant: the L2 check never reports a tile.
FilterL2Drop(t) ==
    /\ th[t].pc = "f_l2"
    /\ Goto(t, [th[t] EXCEPT !.pc = "f_l1", !.i = @ + 1])
    /\ UNCHANGED <<sched, caches, host, l1ClearedGen, preloader, tracked, pure>>

\* return self.l2_cache.contains(&l2_coord)
FilterL2(t) ==
    /\ th[t].pc = "f_l2"
    /\ LET c == th[t].xs[th[t].i] IN
       IF l2[<<th[t].sid, c>>] # NoData
       THEN Goto(t, [th[t] EXCEPT !.pc = "f_l1", !.out = Append(@, c),
                        !.i = @ + 1])
       ELSE Goto(t, [th[t] EXCEPT !.pc = "f_l1", !.i = @ + 1])
    /\ UNCHANGED <<sched, caches, host, l1ClearedGen, preloader, tracked, pure>>

\* --------------------------------------------------------- reset_cache_stats
ResetCacheStats(t) ==
    /\ th[t].pc = "idle"
    /\ Issues(t, "reset_cache_stats")
    /\ l1s' = ZeroStats
    /\ l2s' = ZeroStats
    /\ Goto(t, [IdleRec EXCEPT !.pc = "done", !.op = "reset_cache_stats",
                   !.ret = "unit"])
    /\ UNCHANGED <<sched, l1, l2, host, l1ClearedGen, preloader, tracked, pure>>

\* ------------------------------------------------- prefetch_low_res_levels()
\* let batch_generation = self.generation.load()
LowResSnap(t) ==
    /\ th[t].pc = "idle"
    /\ Issues(t, "prefetch_low_res_levels")
    /\ Goto(t, [IdleRec EXCEPT !.pc = "p_plan",
                   !.op = "prefetch_low_res_levels", !.bgen = generation])
    /\ UNCHANGED <<sched, caches, host, l1ClearedGen, preloader, tracked, pure>>

\* Variant: the tiles are enumerated whatever the slot holds.
LowResPlanAnySlot(t) ==
    /\ th[t].pc = "p_plan"
    /\ slideWriter = "none"
    /\ \E c \in host.coords :
           Goto(t, [th[t] EXCEPT !.pc = "p_has", !.coord = c,
                       !.entry = slide])
    /\ UNCHANGED <<sched, caches, host, l1ClearedGen, preloader, tracked, pure>>

\* Under the slot's read guard: no slide returns; otherwise every tile of
\* every level of at most MAX_TILES_PER_LEVEL tiles (the whole grid here) is
\* resolved against the entry in the slot.  The batch holds one tile, and
\* par_iter().for_each(..) holds the caller as in update_viewport.
LowResPlan(t) ==
    /\ th[t].pc = "p_plan"
    /\ slideWriter = "none"
    /\ IF slide = NoEntry
       THEN Return(t, "unit", NoData)
       ELSE \E c \in host.coords :
                Goto(t, [th[t] EXCEPT !.pc = "p_has", !.coord = c,
                            !.entry = slide])
    /\ UNCHANGED <<sched, caches, host, l1ClearedGen, preloader, tracked, pure>>

\* if self.cache.contains(coord) { return }, else load_tile_for_prefetch
LowResContains(t) ==
    /\ th[t].pc = "p_has"
    /\ IF l1[th[t].coord] # NoData
       THEN Return(t, "unit", NoData)
       ELSE Goto(t, [th[t] EXCEPT !.pc = "w_sid"])
    /\ UNCHANGED <<sched, caches, host, l1ClearedGen, preloader, tracked, pure>>

\* One step of thread t.
Step(t) ==
    \/ Resume(t)
    \/ \E path \in Paths : LoadBegin(t, path)
    \/ LoadSlow(t)
    \/ LoadGen(t)
    \/ LoadFlight(t)
    \/ LoadClear(t)
    \/ LoadSlot(t)
    \/ LoadActive(t)
    \/ CloseGen(t)
    \/ CloseFlight(t)
    \/ CloseSlot(t)
    \/ CloseClear(t)
    \/ CloseActive(t)
    \/ \E coord \in host.coords : GetTileBegin(t, coord)
    \/ GetTileSid(t)
    \/ GetTileL2(t)
    \/ GetTilePromote(t)
    \/ GetTileSlot(t)
    \/ LoadTileIntoCacheRead(t)
    \/ LoadTileIntoCacheL2(t)
    \/ LoadTileIntoCacheL1(t)
    \/ ViewportSnap(t)
    \/ ViewportPlan(t)
    \/ WorkerSid(t)
    \/ WorkerCheck1(t)
    \/ WorkerL1Get(t)
    \/ WorkerL2Get(t)
    \/ WorkerL2Check1(t)
    \/ WorkerL2Check2(t)
    \/ WorkerPromote(t)
    \/ WorkerClaim(t)
    \/ WorkerRead(t)
    \/ WorkerL2Insert(t)
    \/ WorkerCheck3(t)
    \/ WorkerL1Insert(t)
    \/ WorkerClearCheck(t)
    \/ WorkerRemove(t)
    \/ \E xs \in FilterInputs : FilterBegin(t, xs)
    \/ FilterL1(t)
    \/ FilterL2(t)

\* Two threads on one scheduler.
Next == \E t \in Threads : Step(t)

\* Sequential use, with the cache administration calls.
NextSeq == \E t \in Threads : Step(t) \/ ResetCacheStats(t)

\* load, get_tile and update_viewport with its worker.
StepFg(t) ==
    \/ Resume(t)
    \/ \E path \in Paths : LoadBegin(t, path)
    \/ LoadSlow(t)
    \/ LoadGen(t)
    \/ LoadFlight(t)
    \/ LoadClear(t)
    \/ LoadSlot(t)
    \/ LoadActive(t)
    \/ \E coord \in host.coords : GetTileBegin(t, coord)
    \/ GetTileSid(t)
    \/ GetTileL2(t)
    \/ GetTilePromote(t)
    \/ GetTileSlot(t)
    \/ LoadTileIntoCacheRead(t)
    \/ LoadTileIntoCacheL2(t)
    \/ LoadTileIntoCacheL1(t)
    \/ ViewportSnap(t)
    \/ ViewportPlan(t)
    \/ WorkerSid(t)
    \/ WorkerCheck1(t)
    \/ WorkerL1Get(t)
    \/ WorkerL2Get(t)
    \/ WorkerL2Check1(t)
    \/ WorkerL2Check2(t)
    \/ WorkerPromote(t)
    \/ WorkerClaim(t)
    \/ WorkerRead(t)
    \/ WorkerL2Insert(t)
    \/ WorkerCheck3(t)
    \/ WorkerL1Insert(t)
    \/ WorkerClearCheck(t)
    \/ WorkerRemove(t)

NextFg == \E t \in Threads : StepFg(t)

\* Every call of the scheduler that reads the slot, with load and close.
StepIdle(t) ==
    \/ Resume(t)
    \/ \E path \in Paths : LoadBegin(t, path)
    \/ LoadSlow(t)
    \/ LoadGen(t)
    \/ LoadFlight(t)
    \/ LoadClear(t)
    \/ LoadSlot(t)
    \/ LoadActive(t)
    \/ CloseGen(t)
    \/ CloseFlight(t)
    \/ CloseSlot(t)
    \/ CloseClear(t)
    \/ CloseActive(t)
    \/ \E coord \in host.coords : GetTileBegin(t, coord)
    \/ GetTileSid(t)
    \/ GetTileL2(t)
    \/ GetTilePromote(t)
    \/ GetTileSlot(t)
    \/ LoadTileIntoCacheRead(t)
    \/ LoadTileIntoCacheL2(t)
    \/ LoadTileIntoCacheL1(t)
    \/ ViewportSnap(t)
    \/ ViewportPlan(t)
    \/ LowResSnap(t)
    \/ LowResPlan(t)
    \/ LowResContains(t)
    \/ WorkerSid(t)
    \/ WorkerCheck1(t)
    \/ WorkerL1Get(t)
    \/ WorkerL2Get(t)
    \/ WorkerL2Check1(t)
    \/ WorkerL2Check2(t)
    \/ WorkerPromote(t)
    \/ WorkerClaim(t)
    \/ WorkerRead(t)
    \/ WorkerL2Insert(t)
    \/ WorkerCheck3(t)
    \/ WorkerL1Insert(t)
    \/ WorkerClearCheck(t)
    \/ WorkerRemove(t)

NextIdle == \E t \in Threads : StepIdle(t)

SpecIdle == InitIdle /\ [][NextIdle]_vars

\* load, close and update_viewport with its worker.
StepStale(t) ==
    \/ Resume(t)
    \/ \E path \in Paths : LoadBegin(t, path)
    \/ LoadSlow(t)
    \/ LoadGen(t)
    \/ LoadFlight(t)
    \/ LoadClear(t)
    \/ LoadSlot(t)
    \/ LoadActive(t)
    \/ CloseGen(t)
    \/ CloseFlight(t)
    \/ CloseSlot(t)
    \/ CloseClear(t)
    \/ CloseActive(t)
    \/ ViewportSnap(t)
    \/ ViewportPlan(t)
    \/ WorkerSid(t)
    \/ WorkerCheck1(t)
    \/ WorkerL1Get(t)
    \/ WorkerL2Get(t)
    \/ WorkerL2Check1(t)
    \/ WorkerL2Check2(t)
    \/ WorkerPromote(t)
    \/ WorkerClaim(t)
    \/ WorkerRead(t)
    \/ WorkerL2Insert(t)
    \/ WorkerCheck3(t)
    \/ WorkerL1Insert(t)
    \/ WorkerClearCheck(t)
    \/ WorkerRemove(t)

NextStale == \E t \in Threads : StepStale(t)

SpecStale == InitStale /\ [][NextStale]_vars

SpecFlight == InitFlight /\ [][NextStale]_vars

StepSwitch(t) ==
    \/ Resume(t)
    \/ \E path \in Paths : LoadBegin(t, path)
    \/ LoadSlow(t)
    \/ LoadGen(t)
    \/ LoadFlight(t)
    \/ LoadClear(t)
    \/ LoadSlot(t)
    \/ LoadActive(t)
    \/ CloseGen(t)
    \/ CloseFlight(t)
    \/ CloseSlot(t)
    \/ CloseClear(t)
    \/ CloseActive(t)

NextSwitch == \E t \in Threads : StepSwitch(t)

SpecSwitch == InitSwitch /\ [][NextSwitch]_vars

Spec == Init /\ [][Next]_vars

SpecFg == InitFg /\ [][NextFg]_vars

SpecSeq == InitSeq /\ [][NextSeq]_vars

\* ------------------------------------------------------------ BulkPreloader
\* start_bulk_preload: paths that do not canonicalize are dropped, the others
\* are paired with their slide id.
BulkEntries(paths) ==
    LET kept == SelectSeq(paths, PathExists) IN
    [n \in 1..Len(kept) |-> <<compute_slide_id(kept[n]), kept[n]>>]

\* The bulk preloader leaves the scheduler proper alone.
schedRest == <<generation, in_flight, flightGen, slide, slideWriter, active_slide_id,
               l1, l1s, l2s, host, l1ClearedGen, tracked, pure>>

\* Coordinators that have been spawned and have not returned.
Running == {c \in Coordinators : co[c].pc \notin {"unborn", "exited"}}

Unborn == {c \in Coordinators : co[c].pc = "unborn"}

\* Calls of start() that have not reached their spawn.
PendingSpawns ==
    Cardinality({u \in Threads : th[u].op = "start_bulk_preload"
                                 /\ th[u].pc \in {"k_take", "k_join", "s_reset",
                                                  "s_spawn"}})

ReturnBulk(t, r) ==
    th' = [th EXCEPT ![t] =
             [IdleRec EXCEPT !.pc = "done", !.op = th[t].op,
                             !.slides = th[t].slides, !.seen = th[t].seen,
                             !.ret = r]]

\* start(slides): self.cancel() begins with cancelled.store(true)
StartBegin(t, paths) ==
    /\ th[t].pc = "idle"
    /\ Issues(t, "start_bulk_preload")
    /\ Cardinality(Coordinators \ Unborn) + PendingSpawns < host.maxRuns
    /\ cancelled' = TRUE
    /\ Goto(t, [IdleRec EXCEPT !.pc = "k_take", !.op = "start_bulk_preload",
                   !.slides = BulkEntries(paths), !.seen = Running])
    /\ UNCHANGED <<schedRest, l2, pool, handle, handleHolder, co>>

\* cancel(): cancelled.store(true)
CancelBegin(t) ==
    /\ th[t].pc = "idle"
    /\ Issues(t, "cancel_bulk_preload")
    /\ cancelled' = TRUE
    /\ Goto(t, [IdleRec EXCEPT !.pc = "k_take", !.op = "cancel_bulk_preload",
                   !.seen = Running])
    /\ UNCHANGED <<schedRest, l2, pool, handle, handleHolder, co>>

\* Where a call goes when its cancel() part is over.
AfterCancel(t) ==
    IF th[t].op = "cancel_bulk_preload"
    THEN ReturnBulk(t, "unit")
    ELSE Goto(t, [th[t] EXCEPT !.pc = "s_reset", !.h = 0])

\* if let Some(handle) = self.handle.lock().take(): None ends cancel() at
\* once; with Some the guard of the mutex lives on through the join.
CancelTake(t) ==
    /\ th[t].pc = "k_take"
    /\ handleHolder = "none"
    /\ IF handle = 0
       THEN /\ AfterCancel(t)
            /\ UNCHANGED <<handle, handleHolder>>
       ELSE /\ handle' = 0
            /\ handleHolder' = t
            /\ Goto(t, [th[t] EXCEPT !.pc = "k_join", !.h = handle])
    /\ UNCHANGED <<schedRest, l2, pool, cancelled, co>>

\* handle.join() returns when the coordinator has returned; the guard drops.
CancelJoin(t) ==
    /\ th[t].pc = "k_join"
    /\ co[th[t].h].pc = "exited"
    /\ handleHolder' = "none"
    /\ AfterCancel(t)
    /\ UNCHANGED <<schedRest, l2, pool, cancelled, handle, co>>

\* if slides.is_empty() { return }; cancelled.store(false)
StartReset(t) ==
    /\ th[t].pc = "s_reset"
    /\ IF th[t].slides = <<>>
       THEN /\ ReturnBulk(t, "unit")
            /\ cancelled' = cancelled
       ELSE /\ cancelled' = FALSE
            /\ Goto(t, [th[t] EXCEPT !.pc = "s_spawn"])
    /\ UNCHANGED <<schedRest, l2, pool, handle, handleHolder, co>>

\* std::thread::Builder::new().spawn(move || ..): a new coordinator owns the
\* list.
StartSpawn(t) ==
    /\ th[t].pc = "s_spawn"
    /\ Unborn # {}
    /\ LET c == CHOOSE x \in Unborn : \A y \in Unborn : x <= y IN
       /\ co' = [co EXCEPT ![c] = [CoUnborn EXCEPT !.pc = "poll",
                                      !.slides = th[t].slides, !.i = 1]]
       /\ Goto(t, [th[t] EXCEPT !.pc = "s_store", !.h = c])
    /\ UNCHANGED <<schedRest, l2, pool, cancelled, handle, handleHolder>>

\* *self.handle.lock() = Some(handle): a handle already stored is dropped,
\* which detaches its thread.
StartStore(t) ==
    /\ th[t].pc = "s_store"
    /\ handleHolder = "none"
    /\ handle' = th[t].h
    /\ ReturnBulk(t, "unit")
    /\ UNCHANGED <<schedRest, l2, pool, cancelled, handleHolder, co>>

\* is_running(): under the handle mutex, Some(h) => !h.is_finished()
IsRunningNow == handle # 0 /\ co[handle].pc # "exited"

IsRunning(t) ==
    /\ th[t].pc = "idle"
    /\ Issues(t, "is_bulk_preloading")
    /\ handleHolder = "none"
    /\ Goto(t, [IdleRec EXCEPT !.pc = "done", !.op = "is_bulk_preloading",
                   !.ret = IF IsRunningNow THEN "true" ELSE "false"])
    /\ UNCHANGED <<schedRest, l2, pool, preloader>>

\* ------------------------------------------------- the coordinator's closure
CoSlideId(c) == co[c].slides[co[c].i][1]

CoPath(c) == co[c].slides[co[c].i][2]

\* Top of the for loop: the list is exhausted ("Complete"), or the flag is
\* polled.
CoordPoll(c) ==
    /\ co[c].pc = "poll"
    /\ IF co[c].i > Len(co[c].slides)
       THEN co' = [co EXCEPT ![c].pc = "exited"]
       ELSE IF cancelled
       THEN co' = [co EXCEPT ![c].pc = "exited", ![c].polled = TRUE]
       ELSE co' = [co EXCEPT ![c].pc = "intern"]
    /\ UNCHANGED <<schedRest, l2, pool, th, cancelled, handle, handleHolder>>

\* Start of the enumeration of a slide: the counters of the previous one are
\* gone.
CoEnumerate(c, entry) ==
    [co[c] EXCEPT !.pc = "enum", !.entry = entry, !.j = 1,
                  !.work = [x \in Coords |-> "none"],
                  !.loaded = 0, !.failed = 0, !.skipped = 0]

\* pool.load_or_get, fast path: the read-locked lookup.
CoordPoolGet(c) ==
    /\ co[c].pc = "intern"
    /\ IF pool[CoSlideId(c)] # "none"
       THEN co' = [co EXCEPT ![c] =
                     CoEnumerate(c, [id |-> CoSlideId(c),
                                     arc |-> pool[CoSlideId(c)]])]
       ELSE co' = [co EXCEPT ![c].pc = "intern_slow"]
    /\ UNCHANGED <<schedRest, l2, pool, th, cancelled, handle, handleHolder>>

\* Variant: a slide that fails to load ends the run.
CoordPoolLoadAbort(c) ==
    /\ co[c].pc = "intern_slow"
    /\ IF ~MetadataValid(CoPath(c))
       THEN /\ co' = [co EXCEPT ![c].pc = "exited"]
            /\ pool' = pool
       ELSE /\ pool' = [pool EXCEPT ![CoSlideId(c)] = "bulk"]
            /\ co' = [co EXCEPT ![c] =
                        CoEnumerate(c, [id |-> CoSlideId(c), arc |-> "bulk"])]
    /\ UNCHANGED <<schedRest, l2, th, cancelled, handle, handleHolder>>

\* pool.load_or_get, slow path: SlideMetadata::load; Err => "Skipping",
\* continue; Ok => insert under the write lock.
CoordPoolLoad(c) ==
    /\ co[c].pc = "intern_slow"
    /\ IF ~MetadataValid(CoPath(c))
       THEN /\ co' = [co EXCEPT ![c].pc = "poll", ![c].i = @ + 1]
            /\ pool' = pool
       ELSE /\ pool' = [pool EXCEPT ![CoSlideId(c)] = "bulk"]
            /\ co' = [co EXCEPT ![c] =
                        CoEnumerate(c, [id |-> CoSlideId(c), arc |-> "bulk"])]
    /\ UNCHANGED <<schedRest, l2, th, cancelled, handle, handleHolder>>

\* One line of the coordinator's log: <<slide id, loaded, failed, skipped>>.
LogLine(r) == <<r.slides[r.i][1], r.loaded, r.failed, r.skipped>>

\* Variant: the enumeration schedules every tile, cached or not.
CoordEnumNoSkip(c) ==
    /\ co[c].pc = "enum"
    /\ IF co[c].j > Len(MetadataGrid)
       THEN IF \A x \in Coords : co[c].work[x] = "none"
            THEN co' = [co EXCEPT ![c].pc = "poll", ![c].i = @ + 1,
                                  ![c].log = Append(@, LogLine(co[c]))]
            ELSE co' = [co EXCEPT ![c].pc = "tiles"]
       ELSE LET x == MetadataGrid[co[c].j] IN
            co' = [co EXCEPT ![c].work[x] = "todo", ![c].j = @ + 1]
    /\ UNCHANGED <<schedRest, l2, pool, th, cancelled, handle, handleHolder>>

\* One turn of the enumeration loops: l2_cache.contains(&l2_coord) skips the
\* tile, otherwise it is pushed on tile_work.  Past the last tile: an empty
\* tile_work logs "all cached" and continues, otherwise the pool is entered.
CoordEnum(c) ==
    /\ co[c].pc = "enum"
    /\ IF co[c].j > Len(MetadataGrid)
       THEN IF \A x \in Coords : co[c].work[x] = "none"
            THEN co' = [co EXCEPT ![c].pc = "poll", ![c].i = @ + 1,
                                  ![c].log = Append(@, LogLine(co[c]))]
            ELSE co' = [co EXCEPT ![c].pc = "tiles"]
       ELSE LET x == MetadataGrid[co[c].j] IN
            IF l2[<<CoSlideId(c), x>>] # NoData
            THEN co' = [co EXCEPT ![c].skipped = @ + 1, ![c].j = @ + 1]
            ELSE co' = [co EXCEPT ![c].work[x] = "todo", ![c].j = @ + 1]
    /\ UNCHANGED <<schedRest, l2, pool, th, cancelled, handle, handleHolder>>

\* Variant: the tile task does not look at the flag.
BulkTilePollBlind(c, x) ==
    /\ co[c].pc = "tiles"
    /\ co[c].work[x] = "todo"
    /\ co' = [co EXCEPT ![c].work[x] = "go"]
    /\ UNCHANGED <<schedRest, l2, pool, th, cancelled, handle, handleHolder>>

\* A pool worker takes an item of tile_work: if cancelled { return }
BulkTilePoll(c, x) ==
    /\ co[c].pc = "tiles"
    /\ co[c].work[x] = "todo"
    /\ IF cancelled
       THEN co' = [co EXCEPT ![c].work[x] = "fin", ![c].polled = TRUE]
       ELSE co' = [co EXCEPT ![c].work[x] = "go"]
    /\ UNCHANGED <<schedRest, l2, pool, th, cancelled, handle, handleHolder>>

\* Variant: a tile whose read fails takes the rest of the slide with it.
BulkTileLoadAbort(c, x) ==
    /\ co[c].pc = "tiles"
    /\ co[c].work[x] = "go"
    /\ LET compressed == read_jpeg_bytes(co[c].entry.id, x) IN
       IF compressed # NoData
       THEN /\ l2' = [l2 EXCEPT ![<<CoSlideId(c), x>>] = compressed]
            /\ co' = [co EXCEPT ![c].work[x] = "fin", ![c].loaded = @ + 1]
       ELSE /\ l2' = l2
            /\ co' = [co EXCEPT ![c].work = [y \in Coords |->
                                    IF co[c].work[y] = "none" THEN "none"
                                    ELSE "fin"],
                                ![c].failed = @ + 1]
    /\ UNCHANGED <<schedRest, pool, th, cancelled, handle, handleHolder>>

\* match read_jpeg_bytes(tile_path): Ok => l2_cache.insert, loaded += 1;
\* Err => failed += 1
BulkTileLoad(c, x) ==
    /\ co[c].pc = "tiles"
    /\ co[c].work[x] = "go"
    /\ LET compressed == read_jpeg_bytes(co[c].entry.id, x) IN
       IF compressed # NoData
       THEN /\ l2' = [l2 EXCEPT ![<<CoSlideId(c), x>>] = compressed]
            /\ co' = [co EXCEPT ![c].work[x] = "fin", ![c].loaded = @ + 1]
       ELSE /\ l2' = l2
            /\ co' = [co EXCEPT ![c].work[x] = "fin", ![c].failed = @ + 1]
    /\ UNCHANGED <<schedRest, pool, th, cancelled, handle, handleHolder>>

\* Variant: the coordinator goes on to the next slide while items of
\* tile_work are still being processed.
CoordTilesDoneEarly(c) ==
    /\ co[c].pc = "tiles"
    /\ co' = [co EXCEPT ![c].pc = "poll", ![c].i = @ + 1,
                        ![c].log = Append(@, LogLine(co[c]))]
    /\ UNCHANGED <<schedRest, l2, pool, th, cancelled, handle, handleHolder>>

\* rayon_pool.install(..) returns when every item has been processed; the
\* slide's line is logged and the loop goes on.
CoordTilesDone(c) ==
    /\ co[c].pc = "tiles"
    /\ \A x \in Coords : co[c].work[x] \in {"none", "fin"}
    /\ co' = [co EXCEPT ![c].pc = "poll", ![c].i = @ + 1,
                        ![c].log = Append(@, LogLine(co[c]))]
    /\ UNCHANGED <<schedRest, l2, pool, th, cancelled, handle, handleHolder>>

\* One step of a caller of the bulk preloader.
BulkCall(t) ==
    \/ Resume(t)
    \/ \E paths \in host.lists : StartBegin(t, paths)
    \/ CancelBegin(t)
    \/ CancelTake(t)
    \/ CancelJoin(t)
    \/ StartReset(t)
    \/ StartSpawn(t)
    \/ StartStore(t)
    \/ IsRunning(t)

\* One step of coordinator c or of a pool worker on its tile_work.
CoordStep(c) ==
    \/ CoordPoll(c)
    \/ CoordPoolGet(c)
    \/ CoordPoolLoad(c)
    \/ CoordEnum(c)
    \/ \E x \in Coords : BulkTilePoll(c, x)
    \/ \E x \in Coords : BulkTileLoad(c, x)
    \/ CoordTilesDone(c)

NextBulk == (\E t \in Threads : BulkCall(t)) \/ (\E c \in Coordinators : CoordStep(c))

\* The threads the operating system runs get to run.
FairBulk == \A c \in Coordinators : WF_vars(CoordStep(c))

SpecBulk == InitBulk /\ [][NextBulk]_vars

SpecBulkSeq == InitBulkSeq /\ [][NextBulk]_vars

SpecBulkFair == InitBulkFair /\ [][NextBulk]_vars /\ FairBulk

\* load and close on the scheduler beside starts of the bulk preloader.
PoolCall(t) ==
    \/ Resume(t)
    \/ \E path \in Paths : LoadBegin(t, path)
    \/ LoadSlow(t)
    \/ LoadGen(t)
    \/ LoadFlight(t)
    \/ LoadClear(t)
    \/ LoadSlot(t)
    \/ LoadActive(t)
    \/ CloseGen(t)
    \/ CloseFlight(t)
    \/ CloseSlot(t)
    \/ CloseClear(t)
    \/ CloseActive(t)
    \/ \E paths \in host.lists : StartBegin(t, paths)
    \/ CancelTake(t)
    \/ CancelJoin(t)
    \/ StartReset(t)
    \/ StartSpawn(t)
    \/ StartStore(t)

NextPool == (\E t \in Threads : PoolCall(t)) \/ (\E c \in Coordinators : CoordStep(c))

SpecPool == InitPool /\ [][NextPool]_vars

\* ------------------------------------------ TrackedCache over moka's Cache
\* An insert is visible to get and contains_key at once; weighted_size and
\* entry_count follow when the pending tasks run, and that is also when
\* entries are evicted to bring the cache back under max_capacity.
schedAll == <<generation, in_flight, flightGen, slide, slideWriter, active_slide_id, pool,
              l1, l1s, l2, l2s, th, host, l1ClearedGen, preloader, pure>>

RECURSIVE SumOver(_, _)
SumOver(f, keys) ==
    IF keys = {} THEN 0
    ELSE LET k == CHOOSE x \in keys : TRUE IN f[k] + SumOver(f, keys \ {k})

\* inner.weighted_size() and inner.entry_count()
WeightedSize(acct) == SumOver(acct, CKeys)

EntryCount(acct) == Cardinality({k \in CKeys : acct[k] # 0})

Present(map) == {k \in CKeys : map[k] # 0}

\* The weight of every entry as the weigher reports it.
Weights(map) == [k \in CKeys |-> IF map[k] = 0 THEN 0 ELSE Weigh(map[k])]

\* Variant: the pending tasks never evict.
KeepSetsAll(map) == {Present(map)}

\* What run_pending_tasks may leave in the cache: everything when it fits,
\* otherwise any set of entries whose weights fit in max_capacity.
KeepSets(map) ==
    IF SumOver(Weights(map), CKeys) <= CacheCap
    THEN {Present(map)}
    ELSE {K \in SUBSET Present(map) : SumOver(Weights(map), K) <= CacheCap}

AfterTasks(map, K) == [k \in CKeys |-> IF k \in K THEN map[k] ELSE 0]

\* The call counter of tcOut only tells one call from the next.
Tick == 1 - tcOut.tick

\* moka runs its pending tasks on its own during reads and writes.
TcMaintenance ==
    /\ tcAcct # Weights(tcMap)
    /\ \E K \in KeepSets(tcMap) :
         /\ tcMap' = AfterTasks(tcMap, K)
         /\ tcAcct' = Weights(AfterTasks(tcMap, K))
         /\ tcHist' = [tcHist EXCEPT !.evicted = @ \/ K # Present(tcMap)]
    /\ UNCHANGED <<schedAll, tcs, tcOut>>

\* TrackedCache::get
TcGet(k) ==
    /\ CacheGetRoom(tcs, IF tcMap[k] = 0 THEN NoData ELSE <<tcMap[k]>>)
    /\ tcs' = CacheGetStats(tcs, IF tcMap[k] = 0 THEN NoData ELSE <<tcMap[k]>>)
    /\ tcOut' = [op |-> "get", key |-> k, ret |-> <<tcMap[k]>>, tick |-> Tick]
    /\ tcHist' = [tcHist EXCEPT !.gets = @ + 1]
    /\ UNCHANGED <<schedAll, tcMap, tcAcct>>

\* TrackedCache::insert
TcInsert(k, size) ==
    /\ tcMap' = [tcMap EXCEPT ![k] = size]
    /\ tcOut' = [op |-> "insert", key |-> k, ret |-> <<>>, tick |-> Tick]
    /\ UNCHANGED <<schedAll, tcAcct, tcs, tcHist>>

\* Variant: contains counts as a get.
TcContainsCounting(k) ==
    /\ CacheGetRoom(tcs, IF tcMap[k] = 0 THEN NoData ELSE <<tcMap[k]>>)
    /\ tcs' = CacheGetStats(tcs, IF tcMap[k] = 0 THEN NoData ELSE <<tcMap[k]>>)
    /\ tcOut' = [op |-> "contains", key |-> k, ret |-> <<tcMap[k] # 0>>,
                 tick |-> Tick]
    /\ UNCHANGED <<schedAll, tcMap, tcAcct, tcHist>>

\* TrackedCache::contains
TcContains(k) ==
    /\ tcOut' = [op |-> "contains", key |-> k, ret |-> <<tcMap[k] # 0>>,
                 tick |-> Tick]
    /\ UNCHANGED <<schedAll, tcMap, tcAcct, tcs, tcHist>>

\* Variant: clear only resets the counters.
TcClearKeepEntries ==
    /\ tcs' = ZeroStats
    /\ tcOut' = [op |-> "clear", key |-> "", ret |-> <<>>, tick |-> Tick]
    /\ tcHist' = [tcHist EXCEPT !.gets = 0,
                                !.wiped = tcs # ZeroStats]
    /\ UNCHANGED <<schedAll, tcMap, tcAcct>>

\* TrackedCache::clear: invalidate_all, run_pending_tasks, reset_stats
TcClear ==
    /\ tcMap' = [k \in CKeys |-> 0]
    /\ tcAcct' = [k \in CKeys |-> 0]
    /\ tcs' = ZeroStats
    /\ tcOut' = [op |-> "clear", key |-> "", ret |-> <<>>, tick |-> Tick]
    /\ tcHist' = [tcHist EXCEPT !.gets = 0,
                                !.wiped = tcs # ZeroStats,
                                !.cleared = Present(tcMap) # {}]
    /\ UNCHANGED schedAll

\* TrackedCache::reset_stats
TcResetStats ==
    /\ tcs' = ZeroStats
    /\ tcOut' = [op |-> "reset_stats", key |-> "", ret |-> <<>>, tick |-> Tick]
    /\ tcHist' = [tcHist EXCEPT !.gets = 0,
                                !.wiped = tcs # ZeroStats]
    /\ UNCHANGED <<schedAll, tcMap, tcAcct>>

\* TrackedCache::stats: run_pending_tasks, then <<hits, misses, size_bytes,
\* num_tiles>> (hit_ratio is computed from the first two).
TcStats ==
    /\ \E K \in KeepSets(tcMap) :
         /\ tcMap' = AfterTasks(tcMap, K)
         /\ tcAcct' = Weights(AfterTasks(tcMap, K))
         /\ tcHist' = [tcHist EXCEPT !.evicted = @ \/ K # Present(tcMap)]
         /\ tcOut' = [op |-> "stats", key |-> "",
                      ret |-> <<tcs.hits, tcs.misses,
                                WeightedSize(Weights(AfterTasks(tcMap, K))),
                                EntryCount(Weights(AfterTasks(tcMap, K)))>>,
                      tick |-> Tick]
    /\ UNCHANGED <<schedAll, tcs>>

NextCache ==
    \/ TcMaintenance
    \/ \E k \in CKeys : TcGet(k)
    \/ \E k \in CKeys, size \in CSizes : TcInsert(k, size)
    \/ \E k \in CKeys : TcContains(k)
    \/ TcClear
    \/ TcResetStats
    \/ TcStats

SpecCache == InitCache /\ [][NextCache]_vars

\* ======================================================================
\* Properties
\* ======================================================================

\* ------------------------------------------------------- PrefetchCalculator
\* The calculator works in f64.  Here slide coordinates are counted in
\* eighths of a pixel, so that every quantity it forms (w / 2, w / 4, w / 8)
\* is an integer, and scales are counted in hundredths; floor, ceil and the
\* comparisons below are then exact.

\* A pyramid as in the calculator's tests: level 0 is the full resolution.
PyramidA ==
    [tile_size |-> 2,
     levels |-> << [level |-> 0, downsample |-> 1, cols |-> 4, rows |-> 2],
                   [level |-> 1, downsample |-> 2, cols |-> 2, rows |-> 1],
                   [level |-> 2, downsample |-> 4, cols |-> 1, rows |-> 1] >>]

\* A pyramid in the dzsave convention: level 0 is the coarsest.
PyramidB ==
    [tile_size |-> 2,
     levels |-> << [level |-> 0, downsample |-> 4, cols |-> 1, rows |-> 1],
                   [level |-> 1, downsample |-> 2, cols |-> 2, rows |-> 1],
                   [level |-> 2, downsample |-> 1, cols |-> 4, rows |-> 2] >>]

\* A pyramid whose level numbers start at 1.
PyramidC ==
    [tile_size |-> 2,
     levels |-> << [level |-> 1, downsample |-> 1, cols |-> 4, rows |-> 2],
                   [level |-> 2, downsample |-> 2, cols |-> 2, rows |-> 1] >>]

Pyramids == {PyramidA, PyramidB, PyramidC}

\* PrefetchConfig::default(), and the same without adjacent levels.
DefaultConfig ==
    [tiles_ahead |-> 2, tiles_around |-> 1, prefetch_levels |-> TRUE,
     min_velocity |-> 50]

Configs == {DefaultConfig, [DefaultConfig EXCEPT !.prefetch_levels = FALSE]}

\* Viewports, in pixels: left of the slide, inside it, and right of it.
ViewXs == {0 - 2, 0, 3, 10}
ViewYs == {0, 2}
ViewWs == {2, 4, 8}
ViewHs == {2, 4}
Scales == {25, 30, 50, 60, 100, 200}
VelocitiesX == {0 - 60, 0, 49, 50, 60}
VelocitiesY == {0, 60}

Viewports ==
    {[x |-> 8 * x, y |-> 8 * y, w |-> 8 * w, h |-> 8 * h, scale |-> s,
      vx |-> vx, vy |-> vy] :
        x \in ViewXs, y \in ViewYs, w \in ViewWs, h \in ViewHs,
        s \in Scales, vx \in VelocitiesX, vy \in VelocitiesY}

\* The tiles of a pyramid.
TilesOfPyramid(meta) ==
    UNION {{<<meta.levels[n].level, c, r>> :
              c \in 0..(meta.levels[n].cols - 1),
              r \in 0..(meta.levels[n].rows - 1)} : n \in 1..Len(meta.levels)}

\* The cached predicate, as the set of tiles it is true of: nothing, every
\* tile, one tile of each of the two finest levels.
CachedSets(meta) ==
    {{}, TilesOfPyramid(meta), {<<0, 0, 0>>, <<1, 1, 0>>, <<2, 0, 0>>}}

\* How the build treats an overflowing u32 subtraction: with overflow checks
\* (a debug build) it panics; without them (a release build) it wraps, and
\* when Vec::with_capacity is granted the wrapped product the loops run over
\* empty ranges.
Builds == {"panic", "wrap"}

Min(a, b) == IF a <= b THEN a ELSE b

Abs(a) == IF a < 0 THEN 0 - a ELSE a

Signum(a) == IF a < 0 THEN 0 - 1 ELSE 1

\* f64::floor and f64::ceil of n / d, d > 0
FloorDiv(n, d) == IF n >= 0 THEN n \div d ELSE 0 - ((0 - n + d - 1) \div d)

CeilDiv(n, d) == 0 - FloorDiv(0 - n, d)

Range(seq) == {seq[n] : n \in 1..Len(seq)}

\* .filter(|l| (l.downsample as f64) <= target_downsample) with
\* target_downsample = 1.0 / scale: +inf for scale 0, negative for a
\* negative scale.
Qualifies(l, scale) ==
    IF scale > 0 THEN l.downsample * scale <= 100 ELSE scale = 0

\* Variant: the comparison is strict.
QualifiesStrictly(l, scale) ==
    IF scale > 0 THEN l.downsample * scale < 100 ELSE scale = 0

\* Iterator::max_by_key(|l| l.level): the last of the greatest elements, as
\* an index into the sequence, 0 for None.
RECURSIVE MaxByLevel(_, _, _)
MaxByLevel(levels, n, best) ==
    IF n > Len(levels) THEN best
    ELSE MaxByLevel(levels, n + 1,
                    IF best = 0 \/ levels[n].level >= levels[best].level
                    THEN n ELSE best)

\* Variant of level_for_scale with the strict comparison.
level_for_scale_strict(meta, scale) ==
    LET kept == SelectSeq(meta.levels, LAMBDA l : QualifiesStrictly(l, scale))
        best == MaxByLevel(kept, 1, 0)
    IN IF best = 0 THEN 0 ELSE kept[best].level

\* PrefetchCalculator::level_for_scale
level_for_scale(meta, scale) ==
    LET kept == SelectSeq(meta.levels, LAMBDA l : Qualifies(l, scale))
        best == MaxByLevel(kept, 1, 0)
    IN IF best = 0 THEN 0 ELSE kept[best].level

\* SlideMetadata::get_level: the first level of that number, as a sequence
\* of at most one element.
get_level(meta, level) ==
    LET found == SelectSeq(meta.levels, LAMBDA l : l.level = level)
    IN IF found = <<>> THEN <<>> ELSE <<found[1]>>

\* The loops of tiles_in_rect: row by row, each row from col_start to
\* col_end.
RowMajor(level, cs, ce, rs, re) ==
    IF ce <= cs \/ re <= rs THEN <<>>
    ELSE [n \in 1..((ce - cs) * (re - rs)) |->
            <<level, cs + ((n - 1) % (ce - cs)), rs + ((n - 1) \div (ce - cs))>>]

\* PrefetchCalculator::tiles_in_rect.  `as u32` of a negative f64 is 0.
tiles_in_rect(build, tile_size, li, x, y, w, h) ==
    LET lts == 8 * tile_size * li.downsample
        col_start == Max(FloorDiv(x, lts), 0)
        col_end == Min(Max(CeilDiv(x + w, lts), 0), li.cols)
        row_start == Max(FloorDiv(y, lts), 0)
        row_end == Min(Max(CeilDiv(y + h, lts), 0), li.rows)
    IN IF (col_end < col_start \/ row_end < row_start) /\ build = "panic"
       THEN Panicked
       ELSE Returned(RowMajor(li.level, col_start, col_end, row_start, row_end))

\* PrefetchCalculator::visible_tiles
visible_tiles(build, meta, vp) ==
    LET li == get_level(meta, level_for_scale(meta, vp.scale))
    IN IF li = <<>> THEN Returned(<<>>)
       ELSE tiles_in_rect(build, meta.tile_size, li[1], vp.x, vp.y, vp.w, vp.h)

\* The velocity-based extension of one axis.
VelExt(cfg, tile_size, v) ==
    IF Abs(v) > cfg.min_velocity
    THEN Signum(v) * 8 * tile_size * cfg.tiles_ahead
    ELSE 0

\* Variant: an axis is extended whatever its velocity.
extended_viewport_always(cfg, vp, tile_size) ==
    LET base_ext == 8 * tile_size * cfg.tiles_around
        vel_ext_x == Signum(vp.vx) * 8 * tile_size * cfg.tiles_ahead
        vel_ext_y == Signum(vp.vy) * 8 * tile_size * cfg.tiles_ahead
    IN << vp.x - base_ext + Min(vel_ext_x, 0),
          vp.y - base_ext + Min(vel_ext_y, 0),
          vp.w + base_ext * 2 + Abs(vel_ext_x),
          vp.h + base_ext * 2 + Abs(vel_ext_y) >>

\* PrefetchCalculator::extended_viewport: <<x, y, w, h>>
extended_viewport(cfg, vp, tile_size) ==
    LET base_ext == 8 * tile_size * cfg.tiles_around
        moving == Abs(vp.vx) > cfg.min_velocity \/ Abs(vp.vy) > cfg.min_velocity
        vel_ext_x == IF moving THEN VelExt(cfg, tile_size, vp.vx) ELSE 0
        vel_ext_y == IF moving THEN VelExt(cfg, tile_size, vp.vy) ELSE 0
    IN << vp.x - base_ext + Min(vel_ext_x, 0),
          vp.y - base_ext + Min(vel_ext_y, 0),
          vp.w + base_ext * 2 + Abs(vel_ext_x),
          vp.h + base_ext * 2 + Abs(vel_ext_y) >>

\* The candidates a push loop appends to tiles, in their order: those that
\* are neither in tiles nor cached nor a repetition of an earlier candidate
\* (which the loop has pushed or skipped for good by then).
FirstNew(tiles, cands, cached) ==
    LET have == Range(tiles) \cup cached
        fresh == SelectSeq([i \in 1..Len(cands) |-> i],
                           LAMBDA i : /\ cands[i] \notin have
                                      /\ \A j \in 1..(i - 1) :
                                            cands[j] # cands[i])
    IN [n \in 1..Len(fresh) |-> cands[fresh[n]]]

\* for coord in cands { if !tiles.contains(&coord) && !cached(&coord)
\* { tiles.push(coord) } }
PushNew(tiles, cands, cached) == tiles \o FirstNew(tiles, cands, cached)

RECURSIVE PushNewAnyway(_, _, _)
PushNewAnyway(tiles, cands, cached) ==
    IF cands = <<>> THEN tiles
    ELSE PushNewAnyway(IF Head(cands) \notin Range(tiles)
                       THEN Append(tiles, Head(cands)) ELSE tiles,
                       Tail(cands), cached)

\* The tiles of the level above over the viewport, and of the level below
\* over the centre box; a level that is not there gives none.
UpTiles(build, meta, vp, level) ==
    LET up == get_level(meta, level + 1)
    IN IF level + 1 < Len(meta.levels) /\ up # <<>>
       THEN tiles_in_rect(build, meta.tile_size, up[1], vp.x, vp.y, vp.w, vp.h)
       ELSE Returned(<<>>)

DownTiles(build, meta, vp, level) ==
    LET down == IF level > 0 THEN get_level(meta, level - 1) ELSE <<>>
        \* center_x - small_width / 2 = x + w / 2 - w / 8
        left == vp.x + (vp.w \div 2) - (vp.w \div 8)
        top == vp.y + (vp.h \div 2) - (vp.h \div 8)
    IN IF down # <<>>
       THEN tiles_in_rect(build, meta.tile_size, down[1], left, top,
                          vp.w \div 4, vp.h \div 4)
       ELSE Returned(<<>>)

\* PrefetchCalculator::prefetch_tiles.  A panic in any tiles_in_rect unwinds
\* the call.
prefetch_tiles(build, cfg, meta, vp, cached) ==
    LET level == level_for_scale(meta, vp.scale)
        visible == visible_tiles(build, meta, vp)
        ext == extended_viewport(cfg, vp, meta.tile_size)
        li == get_level(meta, level)
    IN IF visible.panic THEN Panicked
       ELSE IF li = <<>> THEN Returned(<<>>)
       ELSE
         LET extended == tiles_in_rect(build, meta.tile_size, li[1],
                                       ext[1], ext[2], ext[3], ext[4])
             up == UpTiles(build, meta, vp, level)
             down == DownTiles(build, meta, vp, level)
         IN IF extended.panic THEN Panicked
            ELSE
              LET t1 == SelectSeq(visible.val, LAMBDA c : c \notin cached)
                  t2 == PushNew(t1, extended.val, cached)
              IN IF ~cfg.prefetch_levels THEN Returned(t2)
                 ELSE IF up.panic THEN Panicked
                 ELSE IF down.panic THEN Panicked
                 ELSE Returned(PushNew(PushNew(t2, up.val, cached),
                                       down.val, cached))

\* ---- calls on the calculator
HostCalc == [issues |-> [t \in Threads |-> {}]]

InitCalc == Constructed /\ host = HostCalc

\* Everything but the calculator.
calcRest == <<generation, in_flight, flightGen, slide, slideWriter, active_slide_id,
              pool, l1, l1s, l2, l2s, th, host, l1ClearedGen, preloader,
              tracked, tpack, smeta>>

\* The record of a call and of what it returned.
CalcDone(op, build, cfg, meta, vp, cached, out) ==
    [op |-> op, meta |-> meta, cfg |-> cfg, vp |-> vp, cached |-> cached,
     build |-> build, out |-> out]

\* The result has been taken.
CalcReturn ==
    /\ pcalc.op # "none"
    /\ pcalc' = NoCalc
    /\ UNCHANGED calcRest

ZeroViewport == [x |-> 0, y |-> 0, w |-> 0, h |-> 0, scale |-> 0, vx |-> 0,
                 vy |-> 0]

CalcLevelForScale ==
    /\ pcalc.op = "none"
    /\ \E meta \in Pyramids, s \in Scales :
          pcalc' = CalcDone("level_for_scale", "", DefaultConfig, meta,
                            [ZeroViewport EXCEPT !.scale = s], {},
                            Returned(level_for_scale(meta, s)))
    /\ UNCHANGED calcRest

CalcExtendedViewport ==
    /\ pcalc.op = "none"
    /\ \E cfg \in Configs, meta \in Pyramids, vp \in Viewports :
          /\ vp.scale = 100
          /\ pcalc' = CalcDone("extended_viewport", "", cfg, meta, vp, {},
                               Returned(extended_viewport(cfg, vp,
                                                          meta.tile_size)))
    /\ UNCHANGED calcRest

CalcPrefetchTiles ==
    /\ pcalc.op = "none"
    /\ \E build \in Builds, cfg \in Configs, meta \in Pyramids,
          vp \in Viewports :
          \E cached \in CachedSets(meta) :
              pcalc' = CalcDone("prefetch_tiles", build, cfg, meta, vp, cached,
                                prefetch_tiles(build, cfg, meta, vp, cached))
    /\ UNCHANGED calcRest

NextCalc ==
    \/ CalcLevelForScale
    \/ CalcExtendedViewport
    \/ CalcPrefetchTiles
    \/ CalcReturn

SpecCalc == InitCalc /\ [][NextCalc]_vars

\* ---- Packed tile container (pack.rs)
\* File contents are sequences of bytes, file names sequences of characters;
\* a directory is a set of files, an optional value a sequence of length 0
\* or 1.

\* ---- the batch of prefetch_for_viewport (scheduler.rs)
MAX_VISIBLE_TILES == 256

EXTENDED_TILE_BUDGET == 32

\* for coord in all_tiles { if tiles_to_load.len() >= cap { break }
\* if !tiles_to_load.contains(&coord) { tiles_to_load.push(coord) } }
ExtendUpTo(tiles, cands, cap) ==
    LET new == FirstNew(tiles, cands, {})
        room == IF cap > Len(tiles) THEN cap - Len(tiles) ELSE 0
    IN tiles \o SubSeq(new, 1, Min(Len(new), room))

\* tiles_to_load of prefetch_for_viewport, cache.contains being the set
\* cached: the visible tiles that are not cached, at most MAX_VISIBLE_TILES
\* of them, extended from the plan of prefetch_tiles up to
\* visible_count + extended_budget tiles.
tiles_to_load(build, cfg, meta, vp, cached) ==
    LET visible == visible_tiles(build, meta, vp)
        all_tiles == prefetch_tiles(build, cfg, meta, vp, cached)
    IN IF visible.panic \/ all_tiles.panic THEN Panicked
       ELSE
         LET visible_uncached ==
                 SelectSeq(visible.val, LAMBDA c : c \notin cached)
             visible_count == Min(Len(visible_uncached), MAX_VISIBLE_TILES)
             extended_budget ==
                 EXTENDED_TILE_BUDGET - Min(visible_count, EXTENDED_TILE_BUDGET)
         IN Returned(ExtendUpTo(SubSeq(visible_uncached, 1, visible_count),
                                all_tiles.val,
                                visible_count + extended_budget))

\* A slide of 20 x 20 tiles at full resolution, with two coarser levels.
PyramidWide ==
    [tile_size |-> 2,
     levels |-> << [level |-> 0, downsample |-> 1, cols |-> 20, rows |-> 20],
                   [level |-> 1, downsample |-> 2, cols |-> 10, rows |-> 10],
                   [level |-> 2, downsample |-> 4, cols |-> 5, rows |-> 5] >>]

\* Viewports on it, in pixels: from one tile to the whole slide, at rest
\* and panning right, at full and at half resolution.
BatchXs == {0, 6, 20}
BatchYs == {0, 6}
BatchSides == {2, 8, 12, 40}
BatchScales == {50, 100}
BatchVelocities == {0, 60}

BatchViewports ==
    {[x |-> 8 * x, y |-> 8 * y, w |-> 8 * s, h |-> 8 * s, scale |-> z,
      vx |-> vx, vy |-> 0] :
        x \in BatchXs, y \in BatchYs, s \in BatchSides, z \in BatchScales,
        vx \in BatchVelocities}

\* What L1 holds: nothing, every other column of every level, every tile.
BatchCachedSets ==
    {{}, {c \in TilesOfPyramid(PyramidWide) : c[2] % 2 = 1},
     TilesOfPyramid(PyramidWide)}

CalcTilesToLoad ==
    /\ pcalc.op = "none"
    /\ \E vp \in BatchViewports, cached \in BatchCachedSets :
          pcalc' = CalcDone("prefetch_for_viewport", "panic", DefaultConfig,
                            PyramidWide, vp, cached,
                            tiles_to_load("panic", DefaultConfig, PyramidWide,
                                          vp, cached))
    /\ UNCHANGED calcRest

NextBatch ==
    \/ CalcTilesToLoad
    \/ CalcReturn

SpecBatch == InitCalc /\ [][NextBatch]_vars

\* ---- the levels and tiles of prefetch_low_res_levels (scheduler.rs)
MAX_TILES_PER_LEVEL == 64

\* for level in 0..num_levels { if let Some(level_info) = get_level(level)
\* { if level_info.cols * level_info.rows <= MAX_TILES_PER_LEVEL { push } } }
\* The product is taken on u32; the grids below keep it far from 2^32.
levels_to_prefetch(meta) ==
    SelectSeq([n \in 1..Len(meta.levels) |-> n - 1],
              LAMBDA level :
                  LET level_info == get_level(meta, level)
                  IN /\ level_info # <<>>
                     /\ level_info[1].cols * level_info[1].rows
                            <= MAX_TILES_PER_LEVEL)

\* for level in &levels_to_prefetch { for row in 0..rows { for col in
\* 0..cols { all_coords.push(TileCoord::new(*level, col, row)) } } }
RECURSIVE LevelCoords(_, _)
LevelCoords(meta, levels) ==
    IF levels = <<>> THEN <<>>
    ELSE LET level_info == get_level(meta, Head(levels))[1]
         IN RowMajor(Head(levels), 0, level_info.cols, 0, level_info.rows)
            \o LevelCoords(meta, Tail(levels))

\* The tiles prefetch_low_res_levels hands to load_tile_for_prefetch, in
\* the order of tile_paths: all_coords without the tiles cache.contains
\* finds, cached being what L1 holds.
low_res_tiles(meta, cached) ==
    SelectSeq(LevelCoords(meta, levels_to_prefetch(meta)),
              LAMBDA c : c \notin cached)

\* Grids of 1, 6, 64 (the most a level may have), 65 and 72 tiles.
LowResGrids == {<<1, 1>>, <<2, 3>>, <<8, 8>>, <<13, 5>>, <<9, 8>>}

\* Level numbers start at 0 or at 1, or leave out 1.
LowResNumberings == {<<0, 1, 2>>, <<1, 2, 3>>, <<0, 2, 3>>}

\* Pyramids of one to three levels, finest first.
LowResLevel(num, n, grid) ==
    [level |-> num[n], downsample |-> 2 ^ (n - 1), cols |-> grid[1],
     rows |-> grid[2]]

LowResPyramids ==
    {[tile_size |-> 2, levels |-> <<LowResLevel(num, 1, a)>>] :
        num \in LowResNumberings, a \in LowResGrids}
    \cup {[tile_size |-> 2,
           levels |-> <<LowResLevel(num, 1, a), LowResLevel(num, 2, b)>>] :
            num \in LowResNumberings, a \in {<<13, 5>>, <<8, 8>>},
            b \in LowResGrids}
    \cup {[tile_size |-> 2,
           levels |-> <<LowResLevel(num, 1, a), LowResLevel(num, 2, b),
                        LowResLevel(num, 3, <<1, 1>>)>>] :
            num \in LowResNumberings, a \in {<<9, 8>>, <<8, 8>>},
            b \in {<<8, 8>>, <<2, 3>>}}

\* What L1 holds: nothing, the first column of every level, every tile.
LowResCachedSets(meta) ==
    {{}, {c \in TilesOfPyramid(meta) : c[2] = 0}, TilesOfPyramid(meta)}

CalcLowResTiles ==
    /\ pcalc.op = "none"
    /\ \E meta \in LowResPyramids :
          \E cached \in LowResCachedSets(meta) :
              pcalc' = CalcDone("prefetch_low_res_levels", "", DefaultConfig,
                                meta, ZeroViewport, cached,
                                Returned(low_res_tiles(meta, cached)))
    /\ UNCHANGED calcRest

NextLowRes ==
    \/ CalcLowResTiles
    \/ CalcReturn

SpecLowRes == InitCalc /\ [][NextLowRes]_vars

\* ---- calls of tiles_in_rect on its own
\* Rectangles, in pixels: origins left of and above the slide, inside it,
\* and right of and below it; empty and non-empty extents.
RectXs == {0 - 20, 0 - 2, 0, 3, 10, 100}
RectYs == {0 - 3, 0, 2, 9}
RectWs == {0, 2, 4, 8}
RectHs == {0, 2, 4}

\* The call is recorded with the level it was given as the only level.
CalcTilesInRect ==
    /\ pcalc.op = "none"
    /\ \E build \in Builds, meta \in Pyramids, x \in RectXs, y \in RectYs,
          w \in RectWs, h \in RectHs :
          \E n \in 1..Len(meta.levels) :
              LET rect == [ZeroViewport EXCEPT !.x = 8 * x, !.y = 8 * y,
                                              !.w = 8 * w, !.h = 8 * h]
              IN pcalc' = CalcDone("tiles_in_rect", build, DefaultConfig,
                                   [meta EXCEPT !.levels = <<meta.levels[n]>>],
                                   rect, {},
                                   tiles_in_rect(build, meta.tile_size,
                                                 meta.levels[n], rect.x,
                                                 rect.y, rect.w, rect.h))
    /\ UNCHANGED calcRest

NextRect ==
    \/ CalcTilesInRect
    \/ CalcReturn

SpecRect == InitCalc /\ [][NextRect]_vars

LEVEL_MAGIC == <<70, 80, 76, 73, 68, 88, 49, 0>>

LEVEL_VERSION == 1

LEVEL_HEADER_SIZE == 16

LEVEL_ENTRY_SIZE == 12

\* u16::MAX, the bound of u16::try_from.
U16Max == 65535

\* n.to_le_bytes() for an unsigned integer of width bytes.
RECURSIVE to_le_bytes(_, _)
to_le_bytes(n, width) ==
    IF width = 0 THEN <<>>
    ELSE <<n % 256>> \o to_le_bytes(n \div 256, width - 1)

\* uN::from_le_bytes(b).
RECURSIVE from_le_bytes(_)
from_le_bytes(b) ==
    IF b = <<>> THEN 0 ELSE b[1] + 256 * from_le_bytes(Tail(b))

DigitChars == <<"0", "1", "2", "3", "4", "5", "6", "7", "8", "9">>

\* n.to_string(), and "{}" in format!, for an unsigned integer.
RECURSIVE to_string(_)
to_string(n) ==
    IF n < 10 THEN <<DigitChars[n + 1]>>
    ELSE to_string(n \div 10) \o <<DigitChars[(n % 10) + 1]>>

\* str::strip_suffix and str::strip_prefix.
strip_suffix(name, suf) ==
    IF Len(name) >= Len(suf)
       /\ SubSeq(name, Len(name) - Len(suf) + 1, Len(name)) = suf
    THEN <<SubSeq(name, 1, Len(name) - Len(suf))>>
    ELSE <<>>

strip_prefix(name, pre) ==
    IF Len(name) >= Len(pre) /\ SubSeq(name, 1, Len(pre)) = pre
    THEN <<SubSeq(name, Len(pre) + 1, Len(name))>>
    ELSE <<>>

IsDigit(c) == \E i \in 1..10 : DigitChars[i] = c

DigitValue(c) == CHOOSE d \in 0..9 : DigitChars[d + 1] = c

RECURSIVE DigitsValue(_)
DigitsValue(s) ==
    IF s = <<>> THEN 0
    ELSE 10 * DigitsValue(SubSeq(s, 1, Len(s) - 1)) + DigitValue(s[Len(s)])

\* str::parse::<u32>(): decimal digits after an optional plus sign (the names
\* below stay far from u32::MAX).
parse_u32(s) ==
    LET d == IF s # <<>> /\ s[1] = "+" THEN Tail(s) ELSE s
    IN IF d = <<>> \/ \E i \in 1..Len(d) : ~IsDigit(d[i]) THEN <<>>
       ELSE <<DigitsValue(d)>>

JPG == <<".", "j", "p", "g">>

JPEG == <<".", "j", "p", "e", "g">>

PNG == <<".", "p", "n", "g">>

IDX == <<".", "i", "d", "x">>

PACK == <<".", "p", "a", "c", "k">>

LEVEL_ == <<"l", "e", "v", "e", "l", "_">>

\* format!("{}_{}", col, row)
TileKey(col, row) == to_string(col) \o <<"_">> \o to_string(row)

\* format!("level_{}.pack", level) and format!("level_{}.idx", level)
PackName(level) == LEVEL_ \o to_string(level) \o PACK

IdxName(level) == LEVEL_ \o to_string(level) \o IDX

File(name, data) == [name |-> name, data |-> data]

\* ---- LevelPack::parse
\* The entry table: entry_count records of an 8-byte offset and a 4-byte
\* length, read from LEVEL_HEADER_SIZE on.
ParseEntries(idx_bytes, entry_count) ==
    [i \in 1..entry_count |->
        LET cursor == LEVEL_HEADER_SIZE + (i - 1) * LEVEL_ENTRY_SIZE
        IN [offset |-> from_le_bytes(SubSeq(idx_bytes, cursor + 1, cursor + 8)),
            length |-> from_le_bytes(SubSeq(idx_bytes, cursor + 9,
                                            cursor + 12))]]

parse(level, idx_bytes, pack, pack_len) ==
    IF Len(idx_bytes) < LEVEL_HEADER_SIZE THEN Err("Validation")
    ELSE IF SubSeq(idx_bytes, 1, 8) # LEVEL_MAGIC THEN Err("Validation")
    ELSE IF from_le_bytes(SubSeq(idx_bytes, 9, 12)) # LEVEL_VERSION
         THEN Err("Validation")
    ELSE
      LET cols == from_le_bytes(SubSeq(idx_bytes, 13, 14))
          rows == from_le_bytes(SubSeq(idx_bytes, 15, 16))
          entry_count == cols * rows
          expected_len == LEVEL_HEADER_SIZE + entry_count * LEVEL_ENTRY_SIZE
      IN IF cols = 0 \/ rows = 0 THEN Err("Validation")
         ELSE IF Len(idx_bytes) < expected_len THEN Err("Validation")
         ELSE Ok([level |-> level, cols |-> cols, rows |-> rows,
                  entries |-> ParseEntries(idx_bytes, entry_count),
                  pack |-> pack, pack_len |-> pack_len])

\* ---- TilePack::open
\* The directory entries open looks at: names level_<something>.idx.
LevelStr(name) ==
    LET a == strip_prefix(name, LEVEL_)
    IN IF a = <<>> THEN <<>> ELSE strip_suffix(a[1], IDX)

\* The body of the loop over read_dir for one index file f of directory
\* tiles.
OpenEntry(tiles, f) ==
    LET level == parse_u32(LevelStr(f.name)[1])
    IN IF level = <<>> THEN Err("Validation")
       ELSE LET packs == {p \in tiles : p.name = PackName(level[1])}
            IN IF packs = {} THEN Err("Io")
               ELSE LET p == CHOOSE q \in packs : TRUE
                    IN parse(level[1], f.data, p.data, Len(p.data))

\* levels.sort_by_key(|l| l.level) over level packs of distinct levels.
RECURSIVE SortByLevel(_)
SortByLevel(lps) ==
    IF lps = {} THEN <<>>
    ELSE LET m == CHOOSE l \in lps : \A o \in lps : l.level <= o.level
         IN <<m>> \o SortByLevel(lps \ {m})

\* Every result open can return on a file system: read_dir yields the
\* entries in an order of its own, and the first failing entry decides the
\* error.
open(fs) ==
    IF fs.tiles = <<>> THEN {Err("Validation")}
    ELSE
      LET tiles == fs.tiles[1]
          idxs == {f \in tiles : LevelStr(f.name) # <<>>}
          res == [f \in idxs |-> OpenEntry(tiles, f)]
          errs == {res[f].err : f \in idxs} \ {"none"}
          lps == {res[f].val : f \in idxs}
      IN IF errs # {} THEN {Err(k) : k \in errs}
         ELSE IF idxs = {} THEN {Err("Validation")}
         ELSE IF \E f, g \in idxs : f # g /\ res[f].val.level = res[g].val.level
              THEN {Err("Validation")}
         ELSE {Ok(SortByLevel(lps))}

\* ---- TilePack::find_level, tile_ref, read_tile_bytes
find_level(levels, level) ==
    LET hits == {i \in 1..Len(levels) : levels[i].level = level}
    IN IF hits = {} THEN <<>>
       ELSE <<levels[CHOOSE i \in hits : \A j \in hits : i <= j]>>

\* tile_ref taking the entry table column by column.
tile_ref_column_major(levels, level, col, row) ==
    LET info == find_level(levels, level)
    IN IF info = <<>> THEN <<>>
       ELSE IF col >= info[1].cols \/ row >= info[1].rows THEN <<>>
       ELSE LET idx == col * info[1].rows + row
            IN IF idx + 1 > Len(info[1].entries) THEN <<>>
               ELSE IF info[1].entries[idx + 1].length = 0 THEN <<>>
               ELSE <<[level |-> level,
                       offset |-> info[1].entries[idx + 1].offset,
                       length |-> info[1].entries[idx + 1].length]>>

tile_ref(levels, level, col, row) ==
    LET info == find_level(levels, level)
    IN IF info = <<>> THEN <<>>
       ELSE IF col >= info[1].cols \/ row >= info[1].rows THEN <<>>
       ELSE LET idx == row * info[1].cols + col
            IN IF idx + 1 > Len(info[1].entries) THEN <<>>
               ELSE IF info[1].entries[idx + 1].length = 0 THEN <<>>
               ELSE <<[level |-> level,
                       offset |-> info[1].entries[idx + 1].offset,
                       length |-> info[1].entries[idx + 1].length]>>

\* read_at fills the whole buffer from the pack file or fails.
read_tile_bytes(levels, ref) ==
    IF ref.length = 0 THEN Err("Validation")
    ELSE LET level == find_level(levels, ref.level)
         IN IF level = <<>> THEN Err("Validation")
            ELSE IF ref.offset + ref.length > level[1].pack_len
                 THEN Err("Validation")
            ELSE IF ref.offset + ref.length > Len(level[1].pack)
                 THEN Err("Io")
            ELSE Ok(SubSeq(level[1].pack, ref.offset + 1,
                           ref.offset + ref.length))

\* ---- pack_dzsave_tiles
\* The stem under which a directory entry is filed in tile_files, if any.
Stem(name) ==
    LET a == strip_suffix(name, JPG)
    IN IF a # <<>> THEN a ELSE strip_suffix(name, JPEG)

\* The grid cells in the order of the two loops: rows outside, columns
\* inside.
CellsRowMajor(cols, rows) ==
    [i \in 1..(cols * rows) |-> <<(i - 1) % cols, (i - 1) \div cols>>]

\* The loops over the grid of one level: the index so far, the pack so far
\* and pack_offset.  tile_files keeps one path per stem.
RECURSIVE WriteCells(_, _, _, _, _)
WriteCells(dir, cells, idx, pack, pack_offset) ==
    IF cells = <<>> THEN [idx |-> idx, pack |-> pack]
    ELSE
      LET hits == {f \in dir : Stem(f.name) = <<TileKey(cells[1][1],
                                                        cells[1][2])>>}
      IN IF hits = {}
         THEN WriteCells(dir, Tail(cells),
                         idx \o to_le_bytes(0, 8) \o to_le_bytes(0, 4),
                         pack, pack_offset)
         ELSE LET data == (CHOOSE f \in hits : TRUE).data
              IN WriteCells(dir, Tail(cells),
                            idx \o to_le_bytes(pack_offset, 8)
                                \o to_le_bytes(Len(data), 4),
                            pack \o data, pack_offset + Len(data))

\* The closure run for one (level, cols, rows) of the grid over the level
\* directories of tiles_files: the two files written, or the error.
PackLevel(level_dirs, g) ==
    LET dirs == {d \in level_dirs : d.name = to_string(g[1])}
    IN IF dirs = {} THEN Err("Validation")
       ELSE IF g[2] > U16Max \/ g[3] > U16Max THEN Err("Validation")
       ELSE
         LET w == WriteCells((CHOOSE d \in dirs : TRUE).files,
                             CellsRowMajor(g[2], g[3]),
                             LEVEL_MAGIC \o to_le_bytes(LEVEL_VERSION, 4)
                                 \o to_le_bytes(g[2], 2)
                                 \o to_le_bytes(g[3], 2),
                             <<>>, 0)
         IN Ok({File(PackName(g[1]), w.pack), File(IdxName(g[1]), w.idx)})

\* File::create over a directory: the new files replace those of their names.
CreateFiles(dir, files) ==
    {f \in dir : \A n \in files : n.name # f.name} \cup files

\* pack_dzsave_tiles on file system fs.  The levels of the grid are packed in
\* parallel; when one fails, which of the others have written their files
\* by then is open: written is the set of positions that have.
pack_dzsave_tiles(fs, levels, written) ==
    IF fs.tiles_files = <<>> THEN [res |-> Err("Validation"), fs |-> fs]
    ELSE
      LET out_dir == IF fs.tiles = <<>> THEN {} ELSE fs.tiles[1]
          res == [i \in 1..Len(levels) |->
                     PackLevel(fs.tiles_files[1], levels[i])]
          failed == {i \in 1..Len(levels) : res[i].err # "none"}
          made == UNION {res[i].val : i \in (1..Len(levels)) \ failed}
          partial == UNION {res[i].val : i \in written \ failed}
      IN IF failed = {}
         THEN [res |-> Ok(<<>>),
               fs |-> [tiles_files |-> <<>>, dzi |-> FALSE,
                       tiles |-> <<CreateFiles(out_dir, made)>>]]
         ELSE [res |-> Err(res[CHOOSE i \in failed : TRUE].err),
               fs |-> [fs EXCEPT !.tiles = <<CreateFiles(out_dir, partial)>>]]

\* ---- inputs: dzsave output directories and level grids
\* The bytes of the tile at a cell: no two cells of a directory hold the same
\* bytes, and the lengths differ.
TileData(level, col, row) ==
    [i \in 1..(1 + ((col + row + level) % 3)) |->
        1 + col + 4 * row + 16 * level]

\* The cells a directory may hold a tile for, as <<level, col, row>>.
InputCells == {<<0, 0, 0>>, <<0, 1, 0>>, <<0, 0, 1>>, <<0, 1, 1>>, <<1, 0, 0>>}

\* How a cell is stored: not at all, as a .jpg file or as a .jpeg file.
Suffixes == {"none", "jpg", "jpeg"}

TileFiles(level, has) ==
    {File(TileKey(c[2], c[3]) \o (IF has[c] = "jpg" THEN JPG ELSE JPEG),
          TileData(c[1], c[2], c[3])) :
        c \in {d \in InputCells : d[1] = level /\ has[d] # "none"}}

\* A dzsave output: level directories 0, 1 and 2.  Beside the tiles of the
\* cells it holds a tile right of every grid used below, a .png file, a
\* name that is not the decimal form of its cell, and a tile below the grid
\* of level 1.
DzsaveDir(has) ==
    {[name |-> to_string(0),
      files |-> TileFiles(0, has)
                \cup {File(TileKey(2, 0) \o JPG, <<99>>),
                      File(TileKey(0, 0) \o PNG, <<98>>),
                      File(<<"0">> \o TileKey(0, 1) \o JPG, <<97>>)}],
     [name |-> to_string(1),
      files |-> TileFiles(1, has) \cup {File(TileKey(0, 1) \o JPEG, <<96>>)}],
     [name |-> to_string(2),
      files |-> {File(TileKey(0, 0) \o JPG, <<95>>)}]}

DzsaveFs(has) == [tiles_files |-> <<DzsaveDir(has)>>, tiles |-> <<>>,
                  dzi |-> TRUE]

\* Level grids as (level, cols, rows): the two levels in either order, one
\* level alone, a grid narrower than the directory, a level without a
\* directory, and a width beyond u16.
Grids == {<<<<0, 2, 2>>, <<1, 1, 1>>>>,
          <<<<1, 1, 1>>, <<0, 2, 2>>>>,
          <<<<0, 2, 2>>>>,
          <<<<0, 1, 2>>, <<1, 1, 1>>>>,
          <<<<0, 2, 2>>, <<3, 1, 1>>>>,
          <<<<0, U16Max + 1, 1>>, <<1, 1, 1>>>>}

\* ---- inputs: containers on disk, sound and damaged
AllJpg == [c \in InputCells |-> "jpg"]

SoundTiles == pack_dzsave_tiles(DzsaveFs(AllJpg),
                                <<<<0, 2, 2>>, <<1, 1, 1>>>>, {}).fs.tiles[1]

DataOf(dir, name) == (CHOOSE f \in dir : f.name = name).data

Idx0 == DataOf(SoundTiles, IdxName(0))

Pack0 == DataOf(SoundTiles, PackName(0))

\* Index files for level 0 of the sound container: the sound one, one with
\* trailing bytes, and damaged ones.  Byte 61 is the low byte of the length
\* of the last entry, byte 53 the low byte of its offset.
IdxFiles == {Idx0,
             Idx0 \o <<0>>,
             [Idx0 EXCEPT ![1] = 0],
             [Idx0 EXCEPT ![9] = 2],
             [Idx0 EXCEPT ![12] = 1],
             [Idx0 EXCEPT ![13] = 0],
             [Idx0 EXCEPT ![15] = 0],
             [Idx0 EXCEPT ![13] = 3],
             SubSeq(Idx0, 1, Len(Idx0) - 1),
             SubSeq(Idx0, 1, LEVEL_HEADER_SIZE - 1),
             <<>>,
             [Idx0 EXCEPT ![61] = @ + 1],
             [Idx0 EXCEPT ![53] = 200]}

\* Directories tiles/ to open: the sound container with each of the index
\* files, with a shortened pack, without a pack, with a second index of
\* level 0 or of level 1, with an index of no level, and without any index.
TilesDirs ==
    {CreateFiles(SoundTiles, {File(IdxName(0), d)}) : d \in IdxFiles}
    \cup {CreateFiles(SoundTiles,
                      {File(PackName(0), SubSeq(Pack0, 1, Len(Pack0) - 1))}),
          {f \in SoundTiles : f.name # PackName(0)},
          SoundTiles \cup {File(LEVEL_ \o <<"0", "0">> \o IDX, Idx0)},
          SoundTiles \cup {File(LEVEL_ \o <<"+", "1">> \o IDX, Idx0)},
          SoundTiles \cup {File(LEVEL_ \o <<"x">> \o IDX, Idx0)},
          SoundTiles \cup {File(LEVEL_ \o <<"7">> \o PACK, Pack0)},
          {File(LEVEL_ \o <<"0">>, Idx0)}}

ContainerFs(tiles) == [tiles_files |-> <<>>, tiles |-> <<tiles>>,
                       dzi |-> FALSE]

\* ---- calls on the packer and on a TilePack
PackStarts ==
    {PackStart(DzsaveFs(has), g) : has \in [InputCells -> Suffixes],
                                   g \in Grids}
    \cup {PackStart(ContainerFs(t), <<>>) : t \in TilesDirs}
    \cup {NoPack}

HostPack == [issues |-> [t \in Threads |-> {}]]

InitPack ==
    /\ Built
    /\ smeta = NoMeta
    /\ tpack \in PackStarts
    /\ host = HostPack

\* Everything but the packer and the container.
packRest == <<generation, in_flight, flightGen, slide, slideWriter, active_slide_id,
              pool, l1, l1s, l2, l2s, th, host, l1ClearedGen, preloader,
              tracked, pcalc, smeta>>

PackCall(op, level, col, row, res) ==
    [op |-> op, level |-> level, col |-> col, row |-> row, res |-> res]

\* The result has been taken.
PackReturn ==
    /\ tpack.out.op # "none"
    /\ tpack' = [tpack EXCEPT !.out = NoPackCall]
    /\ UNCHANGED packRest

\* pack_dzsave_tiles(fastpath_dir, levels, None), once, before any open
\* keeps a pack file open.
PackDzsave ==
    /\ tpack.out.op = "none"
    /\ tpack.packed = "no"
    /\ tpack.pk = <<>>
    /\ \E written \in SUBSET (1..Len(tpack.levels)) :
          LET r == pack_dzsave_tiles(tpack.fs, tpack.levels, written)
          IN tpack' = [tpack EXCEPT
                 !.fs = r.fs,
                 !.packed = IF r.res.err = "none" THEN "ok" ELSE "failed",
                 !.out = PackCall("pack_dzsave_tiles", 0, 0, 0, r.res)]
    /\ UNCHANGED packRest

\* TilePack::open(fastpath_dir)
TilePackOpen ==
    /\ tpack.out.op = "none"
    /\ tpack.pk = <<>>
    /\ \E r \in open(tpack.fs) :
          tpack' = [tpack EXCEPT
              !.pk = IF r.err = "none" THEN <<r.val>> ELSE <<>>,
              !.out = PackCall("open", 0, 0, 0, r)]
    /\ UNCHANGED packRest

\* The levels, columns and rows asked for.
AskLevels == 0..3

AskCols == 0..2

AskRows == 0..2

\* pack.tile_ref(level, col, row)
TileRef ==
    /\ tpack.out.op = "none"
    /\ tpack.pk # <<>>
    /\ \E level \in AskLevels, col \in AskCols, row \in AskRows :
          tpack' = [tpack EXCEPT
              !.out = PackCall("tile_ref", level, col, row,
                               Ok(tile_ref(tpack.pk[1], level, col, row)))]
    /\ UNCHANGED packRest

\* pack.read_tile_bytes(tile_ref) with the reference tile_ref has just
\* returned.
ReadTileBytes ==
    /\ tpack.out.op = "tile_ref"
    /\ tpack.out.res.val # <<>>
    /\ tpack' = [tpack EXCEPT
           !.out = PackCall("read_tile_bytes", tpack.out.level, tpack.out.col,
                            tpack.out.row,
                            read_tile_bytes(tpack.pk[1],
                                            tpack.out.res.val[1]))]
    /\ UNCHANGED packRest

NextPack ==
    \/ PackDzsave
    \/ TilePackOpen
    \/ TileRef
    \/ ReadTileBytes
    \/ PackReturn

SpecPack == InitPack /\ [][NextPack]_vars

\* ---- SlideMetadata::validate (format.rs)
\* A validation error with its message: the field it names and, for a field
\* of a level, the level number.
Invalid(field, level) ==
    [err |-> "Validation", val |-> <<>>, field |-> field, level |-> level]

\* levels.sort_by_key(|l| l.level): a stable sort, so an element goes behind
\* those of its key already placed.
InsertByLevel(sorted, li) ==
    LET n == Cardinality({i \in 1..Len(sorted) : sorted[i].level <= li.level})
    IN SubSeq(sorted, 1, n) \o <<li>> \o SubSeq(sorted, n + 1, Len(sorted))

RECURSIVE sort_by_key(_)
sort_by_key(levels) ==
    IF levels = <<>> THEN <<>>
    ELSE InsertByLevel(sort_by_key(SubSeq(levels, 1, Len(levels) - 1)),
                       levels[Len(levels)])

\* The loop over the sorted levels from position i on.
RECURSIVE CheckLevels(_, _)
CheckLevels(levels, i) ==
    IF i > Len(levels) THEN Ok(levels)
    ELSE IF levels[i].downsample = 0
         THEN Invalid("downsample", levels[i].level)
    ELSE IF levels[i].cols = 0 THEN Invalid("cols", levels[i].level)
    ELSE IF levels[i].rows = 0 THEN Invalid("rows", levels[i].level)
    ELSE IF i > 1 /\ levels[i].level = levels[i - 1].level
         THEN Invalid("level", levels[i].level)
    ELSE CheckLevels(levels, i + 1)

\* validate with the sort left out.
validate_unsorted(m) ==
    IF m.dimensions[1] = 0 \/ m.dimensions[2] = 0
    THEN Invalid("dimensions", 0)
    ELSE IF m.tile_size = 0 THEN Invalid("tile_size", 0)
    ELSE IF m.levels = <<>> THEN Invalid("levels", 0)
    ELSE LET r == CheckLevels(m.levels, 1)
         IN IF r.err # "none" THEN r
            ELSE Ok([m EXCEPT !.levels = r.val])

\* SlideMetadata::validate: the error, or the metadata as validate leaves
\* it.
validate(m) ==
    IF m.dimensions[1] = 0 \/ m.dimensions[2] = 0
    THEN Invalid("dimensions", 0)
    ELSE IF m.tile_size = 0 THEN Invalid("tile_size", 0)
    ELSE IF m.levels = <<>> THEN Invalid("levels", 0)
    ELSE LET r == CheckLevels(sort_by_key(m.levels), 1)
         IN IF r.err # "none" THEN r
            ELSE Ok([m EXCEPT !.levels = r.val])

\* ---- inputs: parsed metadata.json
MetaDims == {0, 1, 3}

MetaTileSizes == {0, 2}

MetaLevelNumbers == {0, 1, 2}

\* Level descriptions: any with a field zero or not, and the sound ones.
MetaLevelInfos ==
    [level : MetaLevelNumbers, downsample : {0, 1}, cols : {0, 2},
     rows : {0, 1}]

SoundLevelInfos ==
    [level : MetaLevelNumbers, downsample : {2}, cols : {2}, rows : {1}]

\* Level lists: up to two levels of any kind, three sound ones.
MetaLevelLists ==
    {<<>>} \cup {<<a>> : a \in MetaLevelInfos}
           \cup {<<a, b>> : a, b \in MetaLevelInfos}
           \cup {<<a, b, c>> : a, b, c \in SoundLevelInfos}

MetaInputs ==
    [dimensions : MetaDims \X MetaDims, tile_size : MetaTileSizes,
     levels : MetaLevelLists]

\* ---- calls of SlideMetadata::load past the parse
HostMeta == [issues |-> [t \in Threads |-> {}]]

InitMeta == Built /\ tpack = NoPack /\ smeta = NoMeta /\ host = HostMeta

\* Everything but the metadata under validation.
metaRest == <<generation, in_flight, flightGen, slide, slideWriter, active_slide_id,
              pool, l1, l1s, l2, l2s, th, host, l1ClearedGen, preloader,
              tracked, pcalc, tpack>>

\* metadata.validate() on a parsed description.
MetaValidate ==
    /\ smeta.out = <<>>
    /\ \E m \in MetaInputs : smeta' = [input |-> m, out |-> <<validate(m)>>]
    /\ UNCHANGED metaRest

\* The result has been taken.
MetaReturn ==
    /\ smeta.out # <<>>
    /\ smeta' = NoMeta
    /\ UNCHANGED metaRest

NextMeta ==
    \/ MetaValidate
    \/ MetaReturn

SpecMeta == InitMeta /\ [][NextMeta]_vars

\* Thread t takes a step out of one of the positions in pcs.
StepsFrom(t, pcs) == th[t].pc \in pcs /\ th'[t] # th[t]

\* C1: a prefetch worker whose batch_generation was snapshotted before a load
\* or close bumped the generation never puts a tile into L1 once that load or
\* close has cleared L1, whatever the interleaving of worker and load steps.
C1_StaleWorkerNeverInsertsL1 ==
    [][\A t \in Threads :
         StepsFrom(t, {"w_l1ins", "w_promote"}) => th[t].bgen >= l1ClearedGen]_vars

\* C2: once load(P) has returned, a get_tile that starts afterwards and ends
\* before the next load or close returns None or the tile of slide P at that
\* coordinate, never a tile decoded from a previously active slide.
C2_GetTileSeesLoadedSlide ==
    \A t \in Threads :
        ( /\ th[t].pc = "done"
          /\ th[t].op = "get_tile"
          /\ th[t].ret = "some"
          /\ th[t].g0 = generation
          /\ Quiescent
          /\ slide # NoEntry )
        => th[t].data = TileOf(slide.id, th[t].coord)

\* Thread t takes a step of a call of one of the operations in ops (the step
\* that starts the call included, the caller's Resume excluded).
StepOf(t, ops) == th'[t] # th[t] /\ th'[t].op \in ops

\* C3: load and close never remove or change an L2 entry: every step of a
\* load or close call leaves every (key, value) pair of L2 as it was.
C3_LoadCloseKeepL2 ==
    [][\A t \in Threads : StepOf(t, {"load", "close"}) => l2' = l2]_vars

\* A load of another slide has returned while L2 holds a tile of slide A.
C3_Witness ==
    \E t \in Threads :
        /\ th[t].pc = "done" /\ th[t].op = "load" /\ th[t].ret = "ok"
        /\ active_slide_id = 2
        /\ l2[<<1, <<0, 0, 0>>>>] = JpegOf(1, <<0, 0, 0>>)

\* C4: when a successful load or a close returns and nothing else runs, L1
\* holds no entry and its hit and miss counters are both 0.
C4_L1FreshAfterLoadClose ==
    \A t \in Threads :
        (th[t].pc = "done" /\ th[t].op \in {"load", "close"} /\ th[t].ret = "ok")
        => /\ \A c \in Coords : l1[c] = NoData
           /\ l1s = ZeroStats

\* A load returns after tiles were looked up and cached under an earlier slide.
C4_Witness ==
    \E t \in Threads :
        /\ th[t].pc = "done" /\ th[t].op = "load" /\ th[t].ret = "ok"
        /\ generation >= 2
        /\ \E k \in L2Keys : l2[k] # NoData

\* C5: generation starts at 0 and never decreases; the one bump of a
\* successful load and the one bump of a close each add exactly 1; a load
\* that fails and every other operation leave it alone.
C5_GenerationMonotonic ==
    /\ generation = 0
    /\ [][/\ generation' \in {generation, generation + 1}
          /\ \A t \in Threads :
                /\ StepOf(t, Ops \ {"load", "close"}) => generation' = generation
                /\ StepsFrom(t, {"done"}) => generation' = generation
                /\ StepOf(t, {"load"}) =>
                      /\ generation' = generation + 1 <=> th[t].pc = "ld_gen"
                      /\ th'[t].ret = "err" => th[t].pc \in {"idle", "ld_slow"}
                      /\ th'[t].ret = "ok" => th[t].pc = "ld_active"
                /\ StepOf(t, {"close"}) =>
                      (generation' = generation + 1 <=> th[t].pc = "idle")]_vars

\* Both a load and a close have bumped the generation.
C5_Witness ==
    /\ generation = 2
    /\ slide = NoEntry
    /\ \E s \in SlideIds : pool[s] # "none"
    /\ \E t \in Threads : th[t].pc = "done" /\ th[t].op = "close"

\* C6: a load that returns an error leaves the scheduler as it was: none of
\* the steps of the failing call changes generation, in_flight, L1, L2, the
\* counters, the current-slide slot, active_slide_id or the slide pool.
C6_FailedLoadChangesNothing ==
    [][\A t \in Threads :
         ( /\ StepOf(t, {"load"})
           /\ \/ th[t].pc = "idle"
              \/ th'[t].ret = "err" )
         => UNCHANGED <<generation, in_flight, flightGen, l1, l1s, l2, l2s, slide,
                        slideWriter, active_slide_id, pool>>]_vars

\* A load of the directory with invalid metadata has failed while a slide
\* with cached tiles is loaded.
C6_Witness ==
    \E t \in Threads :
        /\ th[t].pc = "done" /\ th[t].op = "load" /\ th[t].ret = "err"
        /\ active_slide_id = 1
        /\ l1[<<0, 0, 0>>] # NoData
        /\ pool[3] = "none"

\* Steps that probe L2 (l2_cache.get / contains) and steps that file bytes in it.
L2Lookup(t) == StepsFrom(t, {"g_l2", "w_l2", "f_l2"})

L2Insert(t) == StepsFrom(t, {"g_l2ins", "w_l2ins"}) /\ l2' # l2

NoZeroKey == \A c \in Coords : l2'[<<0, c>>] = NoData

\* C7 as stated: while active_slide_id is 0, get_tile, prefetch workers and
\* filter_cached_tiles neither look up nor insert any L2 entry, and no L2
\* entry is ever inserted under slide_id 0.
C7_NoL2WhileNoSlide ==
    [][/\ \A t \in Threads :
             (L2Lookup(t) \/ L2Insert(t)) => active_slide_id # 0
       /\ NoZeroKey]_vars

\* C7 amended: the gate is the slide id the operation itself read: an
\* operation whose latest read of active_slide_id returned 0 neither looks up
\* nor inserts any L2 entry, and no L2 entry is ever inserted under slide_id 0.
\* (An operation that read a nonzero id before a concurrent close stored 0
\* still uses L2 under the id it read.)
C7_NoL2ForSlideIdZero ==
    [][/\ \A t \in Threads :
             th[t].sid = 0 => ~L2Lookup(t) /\ ~L2Insert(t)
       /\ NoZeroKey]_vars

\* get_tile has read slide id 0 and goes to the slot without probing L2,
\* although L2 holds the tile under slide A.
C7_Witness ==
    \E t \in Threads :
        /\ th[t].pc = "g_slot" /\ th[t].op = "get_tile" /\ th[t].sid = 0
        /\ active_slide_id = 0
        /\ l2[<<1, th[t].coord>>] # NoData

\* The L2 entry of the active slide at the coord of t's call can be decoded.
L2Decodable(t) ==
    /\ active_slide_id # 0
    /\ l2[<<active_slide_id, th[t].coord>>] # NoData
    /\ decode_jpeg_bytes(l2[<<active_slide_id, th[t].coord>>]) # NoData

\* C8: L2 survives a slide switch.  A successful get_tile(c) leaves the
\* bytes of c in L2 under the active slide; no later step (load and close
\* included) removes or changes an L2 entry; and a get_tile(c) that misses L1
\* while that entry is there decodes it, promotes it into L1 and returns it
\* without going to the slot or the disk.
C8_L2PromoteAfterSwitch ==
    [][\A t \in Threads :
         /\ \A k \in L2Keys : l2[k] # NoData => l2'[k] = l2[k]
         /\ (StepOf(t, {"get_tile"}) /\ th'[t].pc = "done" /\ th'[t].ret = "some")
              => l2'[<<active_slide_id, th'[t].coord>>]
                   = JpegOf(active_slide_id, th'[t].coord)
         /\ (StepsFrom(t, {"g_sid"}) /\ L2Decodable(t)) => th'[t].pc = "g_l2"
         /\ (StepsFrom(t, {"g_l2"}) /\ L2Decodable(t))
              => /\ th'[t].pc = "g_promote"
                 /\ th'[t].data
                      = decode_jpeg_bytes(l2[<<active_slide_id, th[t].coord>>])
         /\ StepsFrom(t, {"g_promote"})
              => /\ l1' = [l1 EXCEPT ![th[t].coord] = th[t].data]
                 /\ th'[t].pc = "done" /\ th'[t].ret = "some"
                 /\ th'[t].data = TileOf(active_slide_id, th[t].coord)]_vars

\* After load(A), get_tile(c), a load of B and a load of A again, get_tile(c)
\* is about to promote the L2 entry.
C8_Witness ==
    \E t \in Threads :
        /\ th[t].pc = "g_promote"
        /\ generation >= 3
        /\ active_slide_id = 1
        /\ pool[2] # "none"

\* C9: per-tile failures are local.  A failed disk read or decode makes
\* get_tile return None with L1 untouched; an L2 entry that fails to decode
\* sends get_tile on to the slot and the disk path; get_tile only ever returns
\* Some or None; and whatever failed before, get_tile for a coord whose file
\* is good returns that tile.
C9_TileFailuresLocal ==
    [][\A t \in Threads :
         /\ ( /\ StepsFrom(t, {"g_l2"})
              /\ l2[<<th[t].sid, th[t].coord>>] # NoData
              /\ decode_jpeg_bytes(l2[<<th[t].sid, th[t].coord>>]) = NoData )
              => th'[t].pc = "g_slot"
         /\ ( /\ StepsFrom(t, {"g_read"})
              /\ read_jpeg_bytes(th[t].entry.id, th[t].coord) = NoData )
              => th'[t].pc = "done" /\ th'[t].ret = "none" /\ l1' = l1
         /\ ( /\ StepsFrom(t, {"g_l2ins"})
              /\ decode_jpeg_bytes(th[t].data) = NoData )
              => th'[t].pc = "done" /\ th'[t].ret = "none" /\ l1' = l1
         /\ (StepOf(t, {"get_tile"}) /\ th'[t].pc = "done")
              => /\ th'[t].ret \in {"some", "none"}
                 /\ th'[t].ret = "none" => l1'[th'[t].coord] = NoData
                 /\ slide # NoEntry =>
                      IF FileKind(slide.id, th'[t].coord) = "good"
                      THEN /\ th'[t].ret = "some"
                           /\ th'[t].data = TileOf(slide.id, th'[t].coord)
                      ELSE th'[t].ret = "none"]_vars

\* get_tile is on the disk path for a coord whose L2 entry exists but did not
\* decode.
C9_Witness ==
    \E t \in Threads :
        /\ th[t].pc = "g_read"
        /\ th[t].op = "get_tile"
        /\ l2[<<active_slide_id, th[t].coord>>] # NoData

\* What filter_cached_tiles must return for xs: the elements of xs, in order,
\* that are in L1 or, with a slide active, in L2 under the active slide id.
RECURSIVE CachedSublist(_)
CachedSublist(xs) ==
    IF xs = <<>> THEN <<>>
    ELSE LET c == Head(xs)
             rest == CachedSublist(Tail(xs))
         IN IF \/ l1[c] # NoData
               \/ active_slide_id # 0 /\ l2[<<active_slide_id, c>>] # NoData
            THEN <<c>> \o rest
            ELSE rest

\* C10: filter_cached_tiles(X) returns the sub-list of X, in order, of the
\* elements that are in L1 or (with a slide active) in L2 under the active
\* slide id, and no step of the call changes cache contents or counters.
C10_FilterCachedTiles ==
    [][\A t \in Threads :
         StepOf(t, {"filter_cached_tiles"})
         => /\ UNCHANGED <<l1, l1s, l2, l2s>>
            /\ th'[t].pc = "done" => th'[t].data = CachedSublist(th'[t].xs)]_vars

\* A filter over two coords has returned only the second, which is in L2 but
\* not in L1.
C10_Witness ==
    \E t \in Threads :
        /\ th[t].pc = "done" /\ th[t].op = "filter_cached_tiles"
        /\ th[t].xs = << <<0, 1, 0>>, <<0, 0, 0>> >>
        /\ th[t].data = << <<0, 0, 0>> >>
        /\ l1[<<0, 0, 0>>] = NoData

\* C11: update_viewport is fire-and-forget: once the batch has been handed to
\* the prefetch workers the caller's next step is the return of the call, so
\* it returns while tiles of the batch are still being read or decoded.
C11_UpdateViewportFireAndForget ==
    [][\A t \in Threads :
         StepsFrom(t, {"u_plan"}) => th'[t].pc = "done"]_vars

\* C12: the foreground path of get_tile neither consults nor modifies
\* in_flight: no step of a get_tile call changes in_flight, and whether or not
\* the coord is in in_flight the call goes from the slot to the read, from a
\* successful read to the L2 insert and decode, and from a successful decode
\* to the L1 insert.
C12_ForegroundBypassesInFlight ==
    [][\A t \in Threads :
         /\ StepOf(t, {"get_tile"}) => in_flight' = in_flight
         /\ (StepsFrom(t, {"g_slot"}) /\ slide # NoEntry) => th'[t].pc = "g_read"
         /\ ( /\ StepsFrom(t, {"g_read"})
              /\ read_jpeg_bytes(th[t].entry.id, th[t].coord) # NoData )
              => /\ th'[t].pc = "g_l2ins"
                 /\ th'[t].data = read_jpeg_bytes(th[t].entry.id, th[t].coord)
         /\ ( /\ StepsFrom(t, {"g_l2ins"})
              /\ decode_jpeg_bytes(th[t].data) # NoData )
              => th'[t].pc = "g_l1ins"
         /\ StepsFrom(t, {"g_l1ins"})
              => th'[t].pc = "done" /\ th'[t].ret = "some"]_vars

\* get_tile has read and decoded a tile from disk while a prefetch worker
\* holds the same coord in in_flight.
C12_Witness ==
    \E t \in Threads :
        /\ th[t].pc = "g_l1ins"
        /\ th[t].op = "get_tile"
        /\ th[t].coord \in in_flight
        /\ \E u \in Threads \ {t} : th[u].pc = "w_read" /\ th[u].coord = th[t].coord

\* C13: at every moment at most one bulk-preload coordinator is running,
\* whatever the sequence and interleaving of start and cancel calls.
C13_AtMostOneCoordinator == Cardinality(Running) <= 1

\* C14: when cancel() returns, every coordinator that was running when the
\* call was made has exited (so the cancelled run inserts nothing further
\* into L2) and is_running() is false.
C14_CancelJoinsCoordinator ==
    [][\A t \in Threads :
         (StepOf(t, {"cancel_bulk_preload"}) /\ th'[t].pc = "done")
         => /\ \A c \in th'[t].seen : co'[c].pc = "exited"
            /\ ~IsRunningNow']_vars

\* The steps of coordinator c and of the pool workers on its tile_work.
CoSteps(c) == co'[c] # co[c] /\ co[c].pc # "unborn"

\* The slide of entry e loads (its metadata.json is valid).
Loadable(e) == MetadataValid(e[2])

\* C15: a failed slide never aborts the batch.  A slide whose metadata cannot
\* be loaded sends the coordinator on to the next list element and changes
\* nothing in L2; a tile whose read fails is counted as failed and leaves the
\* other tiles of tile_work to be processed; and a run that was never
\* cancelled has, when it exits, logged one line for every loadable slide of
\* its list, in list order, each accounting for every tile of the grid.
C15_FailedSlideNeverAborts ==
    [][\A c \in Coordinators :
         /\ (CoSteps(c) /\ co[c].pc = "intern_slow" /\ ~MetadataValid(CoPath(c)))
              => /\ co'[c].pc = "poll" /\ co'[c].i = co[c].i + 1
                 /\ l2' = l2
         /\ \A x \in Coords :
              ( /\ CoSteps(c) /\ co[c].pc = "tiles" /\ co[c].work[x] = "go"
                /\ co'[c].work[x] = "fin"
                /\ read_jpeg_bytes(co[c].entry.id, x) = NoData )
              => /\ co'[c].failed = co[c].failed + 1
                 /\ co'[c].loaded = co[c].loaded
                 /\ co'[c].pc = "tiles"
                 /\ \A y \in Coords \ {x} : co'[c].work[y] = co[c].work[y]
         /\ (CoSteps(c) /\ co'[c].pc = "exited" /\ ~co'[c].polled)
              => LET done == SelectSeq(co[c].slides, Loadable) IN
                 /\ Len(co'[c].log) = Len(done)
                 /\ \A n \in 1..Len(done) :
                       /\ co'[c].log[n][1] = done[n][1]
                       /\ co'[c].log[n][2] + co'[c].log[n][3] + co'[c].log[n][4]
                            = Len(MetadataGrid)]_vars

\* The run over <<bad, B, A>> has exited: bad was skipped, B was processed
\* with one tile loaded and one failed, and A was loaded in full after it.
C15_Witness ==
    \E c \in Coordinators :
        /\ co[c].pc = "exited"
        /\ ~co[c].polled
        /\ co[c].slides = BulkEntries(<<"bad", "B", "A">>)
        /\ co[c].log = << <<2, 1, 1, 0>>, <<1, 2, 0, 0>> >>
        /\ l2[<<1, <<0, 1, 0>>>>] # NoData

\* C16: a bulk-preload run performs no L2 get (the hit and miss counters
\* never move in a step of the run); a tile whose key is in L2 when the
\* enumeration reaches it is counted as skipped and is not put on tile_work;
\* no worker reads and inserts a tile whose key is in L2; and when every tile
\* of the slide is in L2 the enumeration ends with the line "0 loaded, 0
\* failed, all skipped" and goes to the next slide without any read or insert.
C16_PreloadSkipsCached ==
    [][\A c \in Coordinators :
         /\ CoSteps(c) => l2s' = l2s
         /\ (CoSteps(c) /\ co[c].pc = "enum" /\ co[c].j <= Len(MetadataGrid)
                /\ l2[<<CoSlideId(c), MetadataGrid[co[c].j]>>] # NoData)
              => /\ co'[c].work = co[c].work
                 /\ co'[c].skipped = co[c].skipped + 1
         /\ \A x \in Coords :
              (CoSteps(c) /\ co[c].pc # "enum" /\ co'[c].work[x] # co[c].work[x]
                 /\ co[c].pc # "intern" /\ co[c].pc # "intern_slow")
              => /\ co[c].work[x] # "none"
                 /\ l2[<<CoSlideId(c), x>>] = NoData
         /\ (CoSteps(c) /\ co[c].pc = "enum" /\ co[c].j > Len(MetadataGrid)
                /\ \A x \in Coords : l2[<<CoSlideId(c), x>>] # NoData)
              => /\ co'[c].pc = "poll"
                 /\ co'[c].log = Append(co[c].log,
                                        <<CoSlideId(c), 0, 0, Len(MetadataGrid)>>)
                 /\ l2' = l2]_vars

\* A second run over slide A, whose tiles the first run left in L2, has
\* logged "0 loaded, 0 failed, 2 skipped".
C16_Witness ==
    \E c \in Coordinators :
        /\ c > 1
        /\ co[c].pc = "exited"
        /\ co[c].log = << <<1, 0, 0, 2>> >>
        /\ l2s = ZeroStats

\* Every tile of the grid of every loadable slide of the list that can be
\* read is in L2 under the slide's id, with the bytes of its file.
ListInL2(slides) ==
    \A n \in 1..Len(slides) :
        Loadable(slides[n]) =>
            \A x \in Coords :
                read_jpeg_bytes(slides[n][1], x) # NoData
                => l2[<<slides[n][1], x>>] = JpegOf(slides[n][1], x)

\* C17: every run terminates; a run that has terminated without ever
\* reading the cancellation flag as set has left every readable tile of every
\* loadable slide of its list in L2 under that slide's id; and is_running()
\* called when no coordinator runs answers false.
C17_UncancelledRunFillsL2 ==
    /\ [](\A c \in Coordinators :
             (co[c].pc = "exited" /\ ~co[c].polled) => ListInL2(co[c].slides))
    /\ [][\A t \in Threads :
             (StepOf(t, {"is_bulk_preloading"}) /\ Running = {})
             => th'[t].ret = "false"]_vars
    /\ \A c \in Coordinators : (co[c].pc = "poll") ~> (co[c].pc = "exited")

\* An uncancelled run over <<bad, B, A>> has terminated, and is_running() has
\* answered false.
C17_Witness ==
    \E c \in Coordinators :
        /\ co[c].pc = "exited"
        /\ ~co[c].polled
        /\ Len(co[c].slides) = 3
        /\ handle = c
        /\ \E t \in Threads :
              th[t].pc = "done" /\ th[t].op = "is_bulk_preloading"
              /\ th[t].ret = "false"

\* A call on the TrackedCache returns in this step.
TcCall(ops) == tcOut' # tcOut /\ tcOut'.op \in ops

C19_CountersCountGets ==
    /\ [](tcs.hits + tcs.misses = tcHist.gets)
    /\ [][/\ TcCall({"get"}) =>
              IF tcMap[tcOut'.key] # 0
              THEN /\ tcOut'.ret = <<tcMap[tcOut'.key]>>
                   /\ tcs' = [tcs EXCEPT !.hits = @ + 1]
              ELSE /\ tcOut'.ret = <<0>>
                   /\ tcs' = [tcs EXCEPT !.misses = @ + 1]
          /\ (TcCall({"contains", "insert", "stats"}) \/ tcOut' = tcOut)
               => (tcs' = tcs)
          /\ TcCall({"contains"}) => (tcOut'.ret = <<tcMap[tcOut'.key] # 0>>)
          /\ TcCall({"stats"}) => (/\ tcOut'.ret[1] = tcs.hits
                                    /\ tcOut'.ret[2] = tcs.misses)]_vars

\* After a hit and a miss, contains has been called and the counters still
\* read one hit and one miss.
C19_Witness ==
    /\ tcOut.op = "contains"
    /\ tcOut.ret = <<TRUE>>
    /\ tcs = [hits |-> 1, misses |-> 1]
    /\ tcHist.gets = 2

\* C20: clear() leaves no entry (nothing retrievable, entry count and
\* weighted size 0, as the next stats() reports) and zeroes both counters;
\* reset_stats() zeroes both counters and leaves every entry and its
\* accounting as they were, so a get that follows returns the value.
C20_ClearVersusResetStats ==
    [][/\ TcCall({"clear"}) =>
            /\ Present(tcMap') = {}
            /\ EntryCount(tcAcct') = 0 /\ WeightedSize(tcAcct') = 0
            /\ tcs' = ZeroStats
       /\ (TcCall({"stats"}) /\ tcOut.op = "clear")
            => (tcOut'.ret = <<0, 0, 0, 0>>)
       /\ TcCall({"reset_stats"}) =>
            /\ tcs' = ZeroStats
            /\ tcMap' = tcMap /\ tcAcct' = tcAcct
       /\ (TcCall({"get"}) /\ tcOut.op = "reset_stats" /\ tcMap[tcOut'.key] # 0)
            => (tcOut'.ret = <<tcMap[tcOut'.key]>>)]_vars

\* A clear has removed entries; later, reset_stats has wiped nonzero
\* counters and the get that followed found its entry.
C20_Witness ==
    /\ tcHist.cleared
    /\ tcHist.wiped
    /\ tcHist.gets = 1
    /\ tcOut.op = "get"
    /\ tcOut.ret # <<0>>
    /\ tcs = [hits |-> 1, misses |-> 0]

\* C21: a coordinator goes through its list in order.  Its index into the
\* list only ever moves to the next element, and only when no item of the
\* current slide's tile_work is waiting or being processed; and every read
\* and L2 insert of the run is for the slide at the index, for a tile that a
\* pool worker has taken from that slide's tile_work.  So no tile of a later
\* slide is touched while an earlier slide has tile operations left.
C21_SlidesInListOrder ==
    [][\A c \in Coordinators :
         /\ co[c].pc # "unborn"
              => /\ co'[c].slides = co[c].slides
                 /\ co'[c].i \in {co[c].i, co[c].i + 1}
         /\ (CoSteps(c) /\ co'[c].i # co[c].i)
              => \A x \in Coords : co[c].work[x] \in {"none", "fin"}
         /\ \A x \in Coords :
              (CoSteps(c) /\ co'[c].work[x] \in {"go", "fin"}
                 /\ co'[c].work[x] # co[c].work[x])
              => co'[c].i = co[c].i /\ co[c].pc = "tiles"
         /\ \A k \in L2Keys :
              (CoSteps(c) /\ l2'[k] # l2[k])
              => /\ k[1] = CoSlideId(c)
                 /\ co[c].work[k[2]] = "go"
                 /\ co'[c].work[k[2]] = "fin"]_vars

\* The run over <<bad, B, A>> is inside slide A, the third of its list, with
\* one of A's tiles taken by a worker, after B's line was logged and B's
\* readable tile was put in L2.
C21_Witness ==
    \E c \in Coordinators :
        /\ co[c].slides = BulkEntries(<<"bad", "B", "A">>)
        /\ co[c].i = 3
        /\ co[c].pc = "tiles"
        /\ \E x \in Coords : co[c].work[x] = "go"
        /\ co[c].log = << <<2, 1, 1, 0>> >>
        /\ \E x \in Coords : l2[<<2, x>>] # NoData
        /\ \A x \in Coords : l2[<<1, x>>] = NoData

\* The levels of a pyramid that qualify for a scale (in hundredths):
\* downsample <= 1 / scale.
QualifyingLevels(meta, scale) ==
    {l \in Range(meta.levels) : l.downsample * scale <= 100}

\* C22: level_for_scale returns the highest level number among the levels
\* whose downsample is at most 1 / scale, and 0 when there is none; on the
\* pyramid with downsamples 1, 2, 4 at levels 0, 1, 2 it answers 0 for the
\* scales 1.0 and 0.6, 1 for 0.5 and 0.3, and 2 for 0.25.
C22_LevelForScale ==
    pcalc.op = "level_for_scale" =>
        LET Q == QualifyingLevels(pcalc.meta, pcalc.vp.scale)
            got == pcalc.out.val
        IN /\ ~pcalc.out.panic
           /\ Q = {} => got = 0
           /\ Q # {} => /\ \E l \in Q : l.level = got
                        /\ \A l \in Q : l.level <= got
           /\ pcalc.meta = PyramidA =>
                /\ pcalc.vp.scale \in {100, 60} => got = 0
                /\ pcalc.vp.scale \in {50, 30} => got = 1
                /\ pcalc.vp.scale = 25 => got = 2

\* level_for_scale has answered 1 for the scale 0.3, for which the levels 0
\* and 1 of the pyramid qualify.
C22_Witness ==
    /\ pcalc.op = "level_for_scale"
    /\ pcalc.meta = PyramidA
    /\ pcalc.vp.scale = 30
    /\ Cardinality(QualifyingLevels(pcalc.meta, pcalc.vp.scale)) = 2
    /\ pcalc.out = Returned(1)

\* The tiles of level li that intersect the rectangle <<x, y, w, h>>: a tile
\* spans tile_size * downsample slide pixels, and only the columns and rows
\* of the level's grid exist.
Intersecting(meta, li, x, y, w, h) ==
    LET lts == 8 * meta.tile_size * li.downsample
    IN {<<li.level, c, r>> : c \in 0..(li.cols - 1), r \in 0..(li.rows - 1)} \cap
       {t \in TilesOfPyramid(meta) :
          /\ t[2] * lts < x + w /\ (t[2] + 1) * lts > x
          /\ t[3] * lts < y + h /\ (t[3] + 1) * lts > y}

\* The level of number n of a pyramid, when it has one.
LevelsNumbered(meta, n) == {l \in Range(meta.levels) : l.level = n}

\* The four parts of the plan for the recorded call, as sets: the visible
\* tiles, the tiles of the extended viewport, and the tiles of the adjacent
\* levels (the level above over the viewport, the level below over the
\* centre box of a quarter of the width and height).
PlanLevel == level_for_scale(pcalc.meta, pcalc.vp.scale)

PlanVisible ==
    UNION {Intersecting(pcalc.meta, l, pcalc.vp.x, pcalc.vp.y, pcalc.vp.w,
                        pcalc.vp.h) : l \in LevelsNumbered(pcalc.meta, PlanLevel)}

PlanExtended ==
    LET e == extended_viewport(pcalc.cfg, pcalc.vp, pcalc.meta.tile_size)
    IN UNION {Intersecting(pcalc.meta, l, e[1], e[2], e[3], e[4]) :
                l \in LevelsNumbered(pcalc.meta, PlanLevel)}

PlanAdjacent ==
    IF ~pcalc.cfg.prefetch_levels THEN {}
    ELSE UNION {Intersecting(pcalc.meta, l, pcalc.vp.x, pcalc.vp.y,
                             pcalc.vp.w, pcalc.vp.h) :
                  l \in LevelsNumbered(pcalc.meta, PlanLevel + 1)}
         \cup
         UNION {Intersecting(pcalc.meta, l,
                             pcalc.vp.x + (3 * pcalc.vp.w) \div 8,
                             pcalc.vp.y + (3 * pcalc.vp.h) \div 8,
                             pcalc.vp.w \div 4, pcalc.vp.h \div 4) :
                  l \in LevelsNumbered(pcalc.meta, PlanLevel - 1)}

\* Where a tile stands in the priority order.
PlanRank(t) ==
    IF t \in PlanVisible THEN 1 ELSE IF t \in PlanExtended THEN 2 ELSE 3

\* The returned sequence is the plan the claim describes.
PlanAsClaimed(plan) ==
    /\ \A i, j \in 1..Len(plan) : i < j =>
          /\ plan[i] # plan[j]
          /\ PlanRank(plan[i]) <= PlanRank(plan[j])
    /\ Range(plan) = (PlanVisible \cup PlanExtended \cup PlanAdjacent)
                         \ pcalc.cached

\* C23: prefetch_tiles returns the plan: the visible tiles first, then the
\* tiles of the extended viewport, then those of the adjacent levels, no
\* tile twice and no cached tile; when every tile is cached it returns the
\* empty plan.
C23_PlanOrderedAndFiltered ==
    pcalc.op = "prefetch_tiles" =>
        /\ ~pcalc.out.panic
        /\ PlanAsClaimed(pcalc.out.val)
        /\ TilesOfPyramid(pcalc.meta) \subseteq pcalc.cached
             => pcalc.out.val = <<>>

\* The directional extension the claim gives an axis of velocity v.
ClaimedVelExt(cfg, tile_size, v) ==
    IF Abs(v) >= cfg.min_velocity
    THEN Signum(v) * 8 * tile_size * cfg.tiles_ahead
    ELSE 0

\* C24: the extended viewport is the viewport with a ring of tiles_around
\* tile-widths on every side and, on each axis whose |velocity| is at least
\* min_velocity, tiles_ahead more tile-widths on the side the velocity points
\* to; an axis slower than min_velocity gets no directional extension.
C24_ExtendedViewport ==
    pcalc.op = "extended_viewport" =>
        LET ts == pcalc.meta.tile_size
            ring == 8 * ts * pcalc.cfg.tiles_around
            dx == ClaimedVelExt(pcalc.cfg, ts, pcalc.vp.vx)
            dy == ClaimedVelExt(pcalc.cfg, ts, pcalc.vp.vy)
        IN pcalc.out.val = << pcalc.vp.x - ring + Min(dx, 0),
                              pcalc.vp.y - ring + Min(dy, 0),
                              pcalc.vp.w + 2 * ring + Abs(dx),
                              pcalc.vp.h + 2 * ring + Abs(dy) >>

\* The tile files the input holds for a cell: <col>_<row>.jpg and
\* <col>_<row>.jpeg in the directory of the level.
InputTiles(fs, level, col, row) ==
    IF fs.tiles_files = <<>> THEN {}
    ELSE UNION {{f \in d.files : f.name \in {TileKey(col, row) \o JPG,
                                             TileKey(col, row) \o JPEG}} :
                   d \in {e \in fs.tiles_files[1] : e.name = to_string(level)}}

\* The cell lies in the grid the packer was given for the level.
InGrid(levels, level, col, row) ==
    \E i \in 1..Len(levels) :
        levels[i][1] = level /\ col < levels[i][2] /\ row < levels[i][3]

IndexFiles(tiles) ==
    {f \in tiles : LevelStr(f.name) # <<>>
                   /\ parse_u32(LevelStr(f.name)[1]) # <<>>}

LevelOf(f) == parse_u32(LevelStr(f.name)[1])[1]

HeaderCols(d) == from_le_bytes(SubSeq(d, 13, 14))

HeaderRows(d) == from_le_bytes(SubSeq(d, 15, 16))

BadMagic(d) == Len(d) >= 8 /\ SubSeq(d, 1, 8) # LEVEL_MAGIC

BadVersion(d) == Len(d) >= 12 /\ from_le_bytes(SubSeq(d, 9, 12)) # 1

ZeroGrid(d) ==
    Len(d) >= LEVEL_HEADER_SIZE /\ (HeaderCols(d) = 0 \/ HeaderRows(d) = 0)

ShortTable(d) ==
    \/ Len(d) < LEVEL_HEADER_SIZE
    \/ Len(d) < LEVEL_HEADER_SIZE
                + HeaderCols(d) * HeaderRows(d) * LEVEL_ENTRY_SIZE

\* Some entry of a complete table ends beyond the pack file.
EntryBeyondPack(d, pack_len) ==
    /\ ~ShortTable(d)
    /\ \E i \in 1..(HeaderCols(d) * HeaderRows(d)) :
          LET at == LEVEL_HEADER_SIZE + (i - 1) * LEVEL_ENTRY_SIZE
          IN from_le_bytes(SubSeq(d, at + 1, at + 8))
             + from_le_bytes(SubSeq(d, at + 9, at + 12)) > pack_len

PacksOf(tiles, f) == {p \in tiles : p.name = PackName(LevelOf(f))}

\* The directory holds an index the container format does not allow.
MalformedIndex(tiles) ==
    \E f \in IndexFiles(tiles) :
        \/ BadMagic(f.data)
        \/ BadVersion(f.data)
        \/ ZeroGrid(f.data)
        \/ ShortTable(f.data)
        \/ \E p \in PacksOf(tiles, f) : EntryBeyondPack(f.data, Len(p.data))

DuplicateLevels(tiles) ==
    \E f, g \in IndexFiles(tiles) : f # g /\ LevelOf(f) = LevelOf(g)

MissingPack(tiles) == \E f \in IndexFiles(tiles) : PacksOf(tiles, f) = {}

\* C26: TilePack::open rejects with a validation error every index with a
\* bad magic, a version other than 1, zero cols or rows, an entry table
\* shorter than cols * rows entries, or an entry whose offset + length
\* exceeds the size of its pack file; and it rejects a directory with
\* duplicate level indexes or a missing pack file.
C26_OpenRejectsMalformed ==
    (tpack.out.op = "open" /\ tpack.fs.tiles # <<>>) =>
        /\ MalformedIndex(tpack.fs.tiles[1]) =>
               tpack.out.res.err = "Validation"
        /\ (DuplicateLevels(tpack.fs.tiles[1])
            \/ MissingPack(tpack.fs.tiles[1])) =>
               tpack.out.res.err # "none"

\* A description meets every requirement of the metadata contract.
SoundMetadata(m) ==
    /\ m.dimensions[1] >= 1 /\ m.dimensions[2] >= 1
    /\ m.tile_size >= 1
    /\ Len(m.levels) >= 1
    /\ \A i \in 1..Len(m.levels) :
          /\ m.levels[i].downsample >= 1
          /\ m.levels[i].cols >= 1
          /\ m.levels[i].rows >= 1
    /\ \A i, j \in 1..Len(m.levels) :
          i # j => m.levels[i].level # m.levels[j].level

\* The field an error names does fail in the description.
FieldFails(m, e) ==
    \/ e.field = "dimensions" /\ (m.dimensions[1] = 0 \/ m.dimensions[2] = 0)
    \/ e.field = "tile_size" /\ m.tile_size = 0
    \/ e.field = "levels" /\ m.levels = <<>>
    \/ \E i \in 1..Len(m.levels) :
          /\ m.levels[i].level = e.level
          /\ \/ e.field = "downsample" /\ m.levels[i].downsample = 0
             \/ e.field = "cols" /\ m.levels[i].cols = 0
             \/ e.field = "rows" /\ m.levels[i].rows = 0
             \/ /\ e.field = "level"
                /\ \E j \in 1..Len(m.levels) :
                      j # i /\ m.levels[j].level = e.level

\* C27: validate accepts a description exactly when both dimensions,
\* tile_size and every level's downsample, cols and rows are at least 1, the
\* level list is not empty and no level number repeats; an accepted
\* description has its levels sorted by level ascending and is otherwise as
\* given; a rejected one yields a validation error that names a failing
\* field, and no metadata.
C27_ValidateMetadata ==
    smeta.out # <<>> =>
        LET m == smeta.input
            r == smeta.out[1]
        IN /\ (r.err = "none") <=> SoundMetadata(m)
           /\ r.err = "none" =>
                  /\ \A i \in 1..(Len(r.val.levels) - 1) :
                        r.val.levels[i].level < r.val.levels[i + 1].level
                  /\ Len(r.val.levels) = Len(m.levels)
                  /\ {r.val.levels[i] : i \in 1..Len(r.val.levels)}
                     = {m.levels[i] : i \in 1..Len(m.levels)}
                  /\ r.val.dimensions = m.dimensions
                  /\ r.val.tile_size = m.tile_size
           /\ r.err # "none" =>
                  r.err = "Validation" /\ r.val = <<>> /\ FieldFails(m, r)

\* A description listing its levels as 2, 0, 1 has been accepted.
C27_Witness ==
    /\ smeta.out # <<>>
    /\ smeta.out[1].err = "none"
    /\ Len(smeta.input.levels) = 3
    /\ smeta.input.levels[1].level = 2
    /\ smeta.input.levels[2].level = 0
    /\ smeta.out[1].val.levels[1].level = 0

\* The positions of load_tile_for_prefetch and of the per-tile closure of
\* prefetch_low_res_levels.
WorkerPcs == {"p_has", "w_sid", "w_chk1", "w_l1", "w_l2", "w_l2chk1",
              "w_l2chk2", "w_promote", "w_claim", "w_read", "w_l2ins",
              "w_chk3", "w_l1ins", "w_clr", "w_rm"}

\* C28: while the slot is empty and no load or close is under way, get_tile
\* returns None (an Option, never an error) for every coordinate, and no step
\* of update_viewport or prefetch_low_res_levels enters a worker or changes
\* L1, L2, their counters or in_flight.
C28_NoSlideNoWork ==
    [][\A t \in Threads :
          /\ (th'[t].op = "get_tile" /\ th'[t].pc = "done"
              /\ slide' = NoEntry /\ Quiescent') =>
                 (th'[t].ret = "none" /\ th'[t].data = NoData)
          /\ (th'[t].op \in {"update_viewport", "prefetch_low_res_levels"}
              /\ th'[t] # th[t] /\ slide = NoEntry /\ Quiescent) =>
                 /\ th'[t].pc \notin WorkerPcs
                 /\ UNCHANGED <<caches, in_flight>>]_vars

\* After a close that followed a load with tiles read into both caches:
\* get_tile has returned None, and update_viewport and
\* prefetch_low_res_levels have come back from the slot check.
C28_Witness ==
    /\ slide = NoEntry
    /\ generation = 2
    /\ \E k \in L2Keys : l2[k] # NoData
    /\ th["t1"].pc = "done"
    /\ th["t1"].op = "prefetch_low_res_levels"

\* Every entry a load_or_get has handed out, to a load, to a coordinator or
\* through a load to the slot, is the entry the pool holds for its slide id.
Interned ==
    /\ \A t \in Threads :
          th[t].entry # NoEntry => pool[th[t].entry.id] = th[t].entry.arc
    /\ \A c \in Coordinators :
          co[c].entry # NoEntry => pool[co[c].entry.id] = co[c].entry.arc
    /\ slide # NoEntry => pool[slide.id] = slide.arc

\* A load_or_get that fails, in load or in the coordinator, leaves the pool
\* as it was.
FailedLoadKeepsPool ==
    /\ \A t \in Threads :
          (th[t].pc # "done" /\ th'[t].pc = "done" /\ th'[t].op = "load"
           /\ th'[t].ret = "err") => pool' = pool
    /\ \A c \in Coordinators :
          (co[c].pc = "intern_slow" /\ co'[c].pc = "poll") => pool' = pool

\* No step takes an entry out of the pool.
NoPoolRemoval == \A s \in SlideIds : pool[s] # "none" => pool'[s] # "none"

\* C29: the pool interns one entry per slide_id: every successful
\* load_or_get of a slide_id returns the one entry the pool holds for it,
\* also when load and the bulk-preload coordinator race on an id not yet in
\* the pool; a failed load_or_get leaves the pool unchanged; and no step,
\* close included, removes an entry.
C29_PoolInterns ==
    [][Interned' /\ FailedLoadKeepsPool /\ NoPoolRemoval]_vars

\* Worker u has claimed its coord and has not yet come to the end of
\* clear_in_flight_for_generation.
HoldsClaim(u) ==
    th[u].pc \in {"w_read", "w_l2ins", "w_chk3", "w_l1ins", "w_clr", "w_rm"}

\* C30: the remove at the end of a prefetch worker never takes away the
\* marker a worker of a newer generation has claimed for the same coord,
\* however the cleanup of the stale worker interleaves with load, close and
\* the claim of the new worker.
C30_StaleWorkerKeepsNewMarker ==
    [][\A t \in Threads :
          (th[t].pc = "w_rm" /\ th'[t].pc # "w_rm") =>
              ~\E u \in Threads \ {t} :
                    /\ HoldsClaim(u)
                    /\ th[u].coord = th[t].coord
                    /\ th[u].bgen > th[t].bgen]_vars

\* At most one worker of a generation holds the claim for a coord.
OneClaimPerCoord ==
    \A t \in Threads : \A u \in Threads \ {t} :
        ~( /\ HoldsClaim(t) /\ HoldsClaim(u)
           /\ th[t].coord = th[u].coord
           /\ th[t].bgen = th[u].bgen )

\* A worker that finds its coord in in_flight returns None at once: no file
\* is read and no cache or counter moves.
DuplicateDropped ==
    \A t \in Threads :
        (th[t].pc = "w_claim" /\ th'[t] # th[t] /\ th[t].coord \in in_flight)
            => /\ th'[t].pc = "done" /\ th'[t].ret = "none"
               /\ th'[t].data = NoData
               /\ UNCHANGED <<caches, in_flight>>

\* C31: among prefetch workers of the same generation at most one at a time
\* holds the claim for a given coord and is reading or decoding it from
\* disk; a worker that finds the coord already in in_flight returns None
\* without reading the file or touching a cache.
C31_InFlightDedup == [][OneClaimPerCoord' /\ DuplicateDropped]_vars

\* Thread u is in a load or close that has bumped the generation (to
\* th[u].bgen) and has not returned.
PastBump(u) ==
    th[u].pc \in {"ld_flight", "ld_clear", "ld_slot", "ld_active",
                  "cl_flight", "cl_slot", "cl_clear", "cl_active"}

\* The generations whose load or close has returned.
ReturnedGens ==
    {g \in 1..generation :
        \A u \in Threads : ~(PastBump(u) /\ th[u].bgen = g)}

\* A coord enters in_flight only by the claim of a worker whose
\* batch_generation is the generation at that moment.
InsertChecked ==
    \A c \in in_flight' \ in_flight :
        \E t \in Threads :
            /\ th[t].pc = "w_claim" /\ th'[t].pc = "w_read"
            /\ th[t].coord = c
            /\ generation = th[t].bgen
            /\ flightGen'[c] = generation

\* load and close empty in_flight, and do so after their bump.
ClearAfterBump ==
    \A t \in Threads :
        (th[t].pc \in {"ld_flight", "cl_flight"} /\ th'[t] # th[t])
            => in_flight' = {} /\ generation >= th[t].bgen

\* No marker in in_flight was claimed under a generation older than one
\* whose load or close has returned.
NoOlderMarker ==
    \A c \in in_flight : \A g \in ReturnedGens : flightGen[c] >= g

\* C32: in_flight membership is scoped to the current generation: a worker
\* inserts a coord only under the in_flight lock and after confirming under
\* that lock that generation equals its batch_generation, load and close
\* clear the whole set after bumping the generation, and so once a load or
\* close has returned in_flight holds no coord claimed by a worker of an
\* earlier generation.
C32_InFlightScopedToGeneration ==
    [][InsertChecked /\ ClearAfterBump /\ NoOlderMarker']_vars

\* load(B) has returned at generation 2 while the worker of generation 1
\* that had claimed the tile is still decoding it; the marker in in_flight
\* is the one a worker of generation 2 has put since.
C32_Witness ==
    /\ generation = 2
    /\ Quiescent
    /\ in_flight = {<<0, 0, 0>>}
    /\ flightGen[<<0, 0, 0>>] = 2
    /\ \E t \in Threads : HoldsClaim(t) /\ th[t].bgen = 1

\* Thread u is inside load_tile_for_prefetch.
InWorker(u) ==
    th[u].pc \in {"w_sid", "w_chk1", "w_l1", "w_l2", "w_l2chk1", "w_l2chk2",
                  "w_promote", "w_claim", "w_read", "w_l2ins", "w_chk3",
                  "w_l1ins", "w_clr", "w_rm"}

\* A worker that claimed its coord and returns under the generation of its
\* batch leaves in_flight without the coord.
ClaimReleased ==
    \A t \in Threads :
        (HoldsClaim(t) /\ th'[t].pc = "done" /\ generation' = th[t].bgen)
            => th[t].coord \notin in_flight'

\* With no worker running and no load or close under way, in_flight is empty.
NoMarkerAtRest ==
    ((\A u \in Threads : ~InWorker(u)) /\ Quiescent) => in_flight = {}

\* C33: no in-flight marker leaks: when a prefetch worker returns, whether
\* the tile was loaded, the disk read failed or the decode failed, and no
\* load or close happened meanwhile, its coord is no longer in in_flight;
\* once every prefetch worker has returned and no load or close is in
\* progress, in_flight is empty.
C33_NoMarkerLeak == [][ClaimReleased /\ NoMarkerAtRest']_vars

\* Slide B alone has been loaded; the worker came back from the tile whose
\* file B does not have, after its L1 miss and its claim, and in_flight is
\* empty again.
C33_Witness ==
    /\ generation = 1
    /\ Quiescent
    /\ slide # NoEntry /\ slide.id = 2
    /\ th["t1"].pc = "done"
    /\ th["t1"].coord = <<0, 1, 0>>
    /\ th["t1"].ret = "none"
    /\ l1s.misses = 1
    /\ in_flight = {}

\* C34: a prefetch worker invoked with a batch_generation different from
\* the current generation returns None and leaves L1, L2 (their counters
\* included) and in_flight unchanged, also when the requested tile is
\* present in L2 under the active slide id: each of its steps, from the
\* entry of load_tile_for_prefetch to its return at check 1, changes none
\* of them.
C34_StaleWorkerDoesNothing ==
    [][\A t \in Threads :
          (th[t].pc \in {"w_sid", "w_chk1"} /\ th'[t] # th[t]
           /\ generation # th[t].bgen) =>
              /\ UNCHANGED <<caches, in_flight>>
              /\ th'[t].pc \in {"w_chk1", "done"}
              /\ th[t].pc = "w_chk1" =>
                    /\ th'[t].pc = "done"
                    /\ th'[t].ret = "none"
                    /\ th'[t].data = NoData]_vars

\* A worker of a batch of generation 1 stands at check 1 after a load has
\* moved the generation to 2; L2 holds the tile it was sent for under the
\* active slide id and L1 does not hold it.
C34_Witness ==
    \E t \in Threads :
        /\ th[t].pc = "w_chk1"
        /\ th[t].bgen = 1
        /\ generation = 2
        /\ th[t].sid # 0
        /\ th[t].sid = active_slide_id
        /\ l2[<<th[t].sid, th[t].coord>>] # NoData
        /\ l1[th[t].coord] = NoData

\* C35: L2 content integrity: every L2 entry under key (s, level, col, row)
\* holds the compressed bytes of slide s's tile at (level, col, row); under
\* every interleaving of load/close with foreground get_tile calls and
\* prefetch workers, bytes read from one slide's tile are never inserted
\* under another slide's id.
C35_L2ContentIntegrity ==
    \A k \in L2Keys : l2[k] # NoData => l2[k] = JpegOf(k[1], k[2])

\* active_slide_id and the slot agree: zero and empty, or the id of the
\* entry in the slot, an id the pool knows.
SlotMatchesActive ==
    /\ active_slide_id # 0 <=> slide # NoEntry
    /\ slide # NoEntry =>
          /\ active_slide_id = slide.id
          /\ pool[slide.id] # "none"

\* The id a load stores is the id computed from its path.
LoadStoresPathId ==
    \A t \in Threads :
        (th[t].pc = "ld_active" /\ th'[t].pc = "done")
            => /\ active_slide_id' = compute_slide_id(th[t].path)
               /\ slide'.id = compute_slide_id(th[t].path)

\* C36: whenever no load or close call is in progress, active_slide_id is
\* nonzero exactly when the current-slide slot holds an entry, and it is
\* then the id under which that entry was interned; this also holds after
\* any number of concurrent load and close calls have all returned, and
\* reloading the same path yields the same id.
C36_ActiveIdMatchesSlot ==
    [][(Quiescent' => SlotMatchesActive') /\ LoadStoresPathId]_vars

\* Three switches have returned, the latest of one thread a load and of the
\* other a close, and slide A is in the slot under its id.
C36_Witness ==
    /\ generation = 3
    /\ \A t \in Threads : th[t].pc = "done"
    /\ \E t \in Threads : th[t].op = "load"
    /\ \E t \in Threads : th[t].op = "close"
    /\ slide # NoEntry
    /\ active_slide_id = compute_slide_id("A")

\* Coordinator c begins a slide: it leaves the poll for pool.load_or_get.
StartsSlide(c) == co[c].pc = "poll" /\ co'[c].pc = "intern"

\* The coordinator reads the flag before each slide: with the flag set the
\* poll ends the run, and no slide begins.
SlidePolled ==
    \A c \in Coordinators :
        /\ StartsSlide(c) => ~cancelled
        /\ (co[c].pc = "poll" /\ co'[c] # co[c] /\ cancelled)
               => co'[c].pc = "exited"

\* Each tile task reads the flag before its read: a task that finds it set
\* ends without reading or inserting.
TilePolled ==
    \A c \in Coordinators : \A x \in Coords :
        (co[c].work[x] = "todo" /\ co'[c].work[x] # "todo" /\ cancelled)
            => /\ co'[c].work[x] = "fin"
               /\ l2' = l2
               /\ co'[c].loaded = co[c].loaded
               /\ co'[c].failed = co[c].failed

\* A bulk insert into L2 is the work of a task that is past its poll.
InsertPastPoll ==
    \A k \in L2Keys :
        l2'[k] # l2[k] =>
            \E c \in Coordinators :
                /\ co[c].pc = "tiles"
                /\ co[c].work[k[2]] = "go"
                /\ co'[c].work[k[2]] = "fin"

\* A run one of whose polls has found the flag set begins no further slide
\* and lets no further task past the poll.
NothingAfterObserved ==
    \A c \in Coordinators :
        co[c].polled =>
            /\ ~StartsSlide(c)
            /\ \A x \in Coords :
                  co[c].work[x] = "todo" => co'[c].work[x] # "go"

\* C37: cooperative cancellation of the bulk preloader: the coordinator
\* reads the cancellation flag before each slide and each tile task reads
\* it before its disk read, so once the flag is set the coordinator starts
\* no further slide and no tile read or L2 insert begins in a task that has
\* observed the flag; only tile operations already past the check may still
\* complete.
C37_CooperativeCancellation ==
    [][SlidePolled /\ TilePolled /\ InsertPastPoll /\ NothingAfterObserved]_vars

\* A run of two tiles was cancelled between the two tasks: one task passed
\* its poll and put its tile into L2, the other found the flag set, and the
\* coordinator has left at its next poll.
C37_Witness ==
    \E c \in Coordinators :
        /\ co[c].polled
        /\ co[c].pc = "exited"
        /\ co[c].loaded = 1
        /\ \E x \in Coords : l2[<<co[c].slides[1][1], x>>] # NoData
        /\ \E x \in Coords : l2[<<co[c].slides[1][1], x>>] = NoData
                              /\ read_jpeg_bytes(co[c].slides[1][1], x) # NoData

\* The batch as claimed for the latest call: the visible tiles L1 does not
\* hold, at most 256 of them, then the tiles of the plan outside the
\* viewport in planner order, at most 32 of them.
ClaimedBatch ==
    LET visible == visible_tiles(pcalc.build, pcalc.meta, pcalc.vp).val
        plan == prefetch_tiles(pcalc.build, pcalc.cfg, pcalc.meta, pcalc.vp,
                               pcalc.cached).val
        admitted == SelectSeq(visible, LAMBDA c : c \notin pcalc.cached)
        beyond == SelectSeq(plan, LAMBDA c : c \notin Range(visible))
    IN SubSeq(admitted, 1, Min(Len(admitted), MAX_VISIBLE_TILES))
       \o SubSeq(beyond, 1, Min(Len(beyond), EXTENDED_TILE_BUDGET))

\* C38: a viewport prefetch batch consists of all visible tiles not in L1
\* (at most 256 of them), followed by extended and adjacent-level tiles
\* taken in planner order until 32 slots beyond the visible ones are filled
\* or the plan is exhausted; no coordinate is submitted twice in a batch and
\* the batch never exceeds 288 tiles.
C38_BatchComposition ==
    (pcalc.op = "prefetch_for_viewport" /\ ~pcalc.out.panic) =>
        /\ pcalc.out.val = ClaimedBatch
        /\ Cardinality(Range(pcalc.out.val)) = Len(pcalc.out.val)
        /\ Len(pcalc.out.val)
              <= MAX_VISIBLE_TILES + EXTENDED_TILE_BUDGET

\* The tiles of the levels of at most 64 tiles, for the latest call.
LowResLevelTiles ==
    {c \in TilesOfPyramid(pcalc.meta) :
        \E n \in 1..Len(pcalc.meta.levels) :
            /\ pcalc.meta.levels[n].level = c[1]
            /\ pcalc.meta.levels[n].cols * pcalc.meta.levels[n].rows
                  <= MAX_TILES_PER_LEVEL}

\* C39: prefetch_low_res_levels submits every tile (all rows and columns)
\* of every level of the loaded slide whose cols * rows is at most 64,
\* whatever the level numbers are, and no tile of a level with more than 64
\* tiles; tiles already in L1 are skipped.
C39_LowResLevelsSubmitted ==
    pcalc.op = "prefetch_low_res_levels" =>
        Range(pcalc.out.val) = LowResLevelTiles \ pcalc.cached

\* C40: for every rectangle, including one with negative origin and one
\* lying partly or wholly beyond the right or bottom edge of the level's
\* grid, the tile enumeration returns only coordinates with 0 <= col < cols
\* and 0 <= row < rows (an empty list when nothing intersects) and
\* completes without unsigned underflow or overflow in its index
\* arithmetic: no call of tiles_in_rect stops on a checked subtraction.
C40_TilesInRectSafe ==
    pcalc.op = "tiles_in_rect" =>
        /\ ~pcalc.out.panic
        /\ \A n \in 1..Len(pcalc.out.val) :
              LET c == pcalc.out.val[n]
                  li == pcalc.meta.levels[1]
              IN /\ c[1] = li.level
                 /\ c[2] \in 0..(li.cols - 1)
                 /\ c[3] \in 0..(li.rows - 1)
====
